---------------------------- MODULE Spec2Model ----------------------------
(***************************************************************************)
(* State-machine model of the in-memory coordination layer of MODEXO:      *)
(* the payment session store, the rate limiter, the escrow ledger, the      *)
(* pricing engine, the congestion monitor, the x402 payment gate and the    *)
(* transaction states.                                                     *)
(* Every store is a module-level map mutated by synchronous calls; one     *)
(* action models one exported function, time is the value of Date.now().   *)
(***************************************************************************)
EXTENDS Integers, Sequences, FiniteSets, TLC

VARIABLES
    now,               \* Date.now() / new Date(), in ms
    ret,               \* the last call and what it returned
    sessions,          \* part_003: Map<sessionId, PaymentSession>
    walletSessions,    \* part_003: Map<wallet, Set<sessionId>>
    nextSessionId,     \* part_003: the next fresh crypto.randomUUID()
    lateMarkPaid,      \* history: ids on which markSessionPaid was called while pending and past expiresAt
    usedTrue,          \* history: per session id, how often markSessionUsed returned true
    lapsed,            \* history: ids of sessions seen pending at a time after their expiresAt
    rateLimitBuckets,  \* x402-ratelimit.ts: Map<"wallet:type", RateLimitBucket>
    usageHistory,      \* x402-ratelimit.ts: UsageRecord[], run-length encoded: <<[rec, n], ...>>
    walletStats,       \* x402-ratelimit.ts: Map<wallet, WalletUsageStats>
    globalMetrics,     \* x402-ratelimit.ts: GlobalUsageMetrics
    escrowAccounts,    \* x402-escrow.ts: Map<escrowId, EscrowAccount>
    escrowsByDepositor,   \* x402-escrow.ts: Map<depositor, Set<escrowId>>
    escrowsByBeneficiary, \* x402-escrow.ts: Map<beneficiary, Set<escrowId>>
    activeDisputes,    \* x402-escrow.ts: Map<escrowId, EscrowDispute> (who initiated it)
    escrowMetrics,     \* x402-escrow.ts: EscrowMetrics
    nextEscrowId,      \* x402-escrow.ts: the next fresh generateEscrowId()
    releaseTrue,       \* history: per escrow id, how often releaseEscrow returned true
    agentPricing,      \* x402-pricing.ts: Map<agentId, AgentPricing>
    demandMetrics,     \* x402-pricing.ts: Map<agentId, DemandMetrics>
    pricingHistory,    \* x402-pricing.ts: Map<agentId, PricingHistory[]>
    discountRules,     \* x402-pricing.ts: Map<ruleId, DiscountRule>
    walletVolume,      \* x402-pricing.ts: Map<wallet, number>
    networkHistory,  \* part_004: NetworkState[], oldest first
    currentNetworkState, \* part_004: NetworkState | null, as << >> or <<state>>
    gateRequests,  \* x402.ts: the requests x402Middleware has been given, each with its response and position
    facilitatorCalls, \* x402.ts: the fetch calls made to FACILITATOR_URL, oldest first
    transactionStates, \* part_000: Map<id, TransactionState>
    authSessions,  \* part_001: Map<wallet, WalletAuthSession>
    activeTokens,  \* part_001: Map<token, AuthToken>
    authMetrics,  \* part_001: AuthMetrics
    nextAuthToken,  \* part_001: the next fresh generateToken()
    authLock,  \* history: per wallet, the lockedUntil set by its latest lockout, until unlockWallet is called for it
    invalidRun, \* history: per wallet, the signatures refused for their format since the last success, unlock or lockout
    fetchRun, \* Partners.tsx: one call of fetchWithRetry: its arguments, loop index i, position and what it did so far
    taskQueue,  \* agent-orchestrator.ts: Map<priority key, AgentTask[]>, here of task numbers
    orchTasks,  \* agent-orchestrator.ts: the AgentTask objects in creation order, a task's number being its place
    activeTasks,  \* agent-orchestrator.ts: Map<taskId, AgentTask>, its keys
    completedTasks,  \* agent-orchestrator.ts: AgentTask[], here of task numbers
    agents,  \* agent-orchestrator.ts: Map<agentId, AgentInstance>, here to the object's number
    agentInstances,  \* agent-orchestrator.ts: the AgentInstance objects in creation order
    taskHandlers,  \* agent-orchestrator.ts: Map<taskType, handler>, its keys
    resumes, \* agent-orchestrator.ts: processQueue calls whose await executeTask is over and that have yet to go on
    schedulerQueue,  \* ai-agent-scheduler.ts taskQueue, a sequence of scheduled tasks
    schedulerRet,  \* what the last scheduler call returned
    schedulerCalls  \* number of scheduler calls made so far

sessVars == <<sessions, walletSessions, nextSessionId, lateMarkPaid, usedTrue, lapsed>>
rateVars == <<rateLimitBuckets, usageHistory, walletStats, globalMetrics>>
escVars  == <<escrowAccounts, escrowsByDepositor, escrowsByBeneficiary, activeDisputes,
              escrowMetrics, nextEscrowId, releaseTrue>>
priceVars == <<agentPricing, demandMetrics, pricingHistory, discountRules, walletVolume>>
netVars == <<networkHistory, currentNetworkState>>
gateVars == <<gateRequests, facilitatorCalls>>
txVars == <<transactionStates>>
authVars == <<authSessions, activeTokens, authMetrics, nextAuthToken, authLock, invalidRun>>
fetchVars == <<fetchRun>>
orchVars == <<taskQueue, orchTasks, activeTasks, completedTasks, agents, agentInstances, taskHandlers, resumes>>
schedVars == <<schedulerQueue, schedulerRet, schedulerCalls>>
\* For each service, the state of the other services, which its calls leave alone.
sessOthers == <<rateVars, escVars, priceVars, netVars, gateVars, txVars, authVars, fetchVars, orchVars, schedVars>>
rateOthers == <<sessVars, escVars, priceVars, netVars, gateVars, txVars, authVars, fetchVars, orchVars, schedVars>>
escOthers == <<sessVars, rateVars, priceVars, netVars, gateVars, txVars, authVars, fetchVars, orchVars, schedVars>>
priceOthers == <<sessVars, rateVars, escVars, netVars, gateVars, txVars, authVars, fetchVars, orchVars, schedVars>>
netOthers == <<sessVars, rateVars, escVars, priceVars, gateVars, txVars, authVars, fetchVars, orchVars, schedVars>>
gateOthers == <<sessVars, rateVars, escVars, priceVars, netVars, txVars, authVars, fetchVars, orchVars, schedVars>>
txOthers == <<sessVars, rateVars, escVars, priceVars, netVars, gateVars, authVars, fetchVars, orchVars, schedVars>>
authOthers == <<sessVars, rateVars, escVars, priceVars, netVars, gateVars, txVars, fetchVars, orchVars, schedVars>>
fetchOthers == <<sessVars, rateVars, escVars, priceVars, netVars, gateVars, txVars, authVars, orchVars, schedVars>>
orchOthers == <<sessVars, rateVars, escVars, priceVars, netVars, gateVars, txVars, authVars, fetchVars, schedVars>>
schedOthers == <<sessVars, rateVars, escVars, priceVars, netVars, gateVars, txVars, authVars, fetchVars, orchVars>>
stores == <<sessVars, rateVars, escVars, priceVars, netVars, gateVars, txVars, authVars, fetchVars, orchVars, schedVars>>
vars     == <<now, ret, stores>>

\* The value of an optional field that is not set (undefined).
None == -1
\* ai-agent-scheduler.ts line 23: the task id `task_${agentId}_${Date.now()}`, kept as its parts.
TaskId(agentId, at) == <<"task", agentId, at>>
NoTaskId == TaskId("", None)
NoSig == "undefined"

\* What a call returned: op, the id / wallet / type it was given, its boolean
\* result (ok), a numeric result (val), a reason string where it has one and
\* the set of ids it returned where it returns a list of ids.
Ret(op, id, wallet, type, ok, val) ==
    [op |-> op, id |-> id, wallet |-> wallet, type |-> type, ok |-> ok, val |-> val,
     reason |-> "", ids |-> {}]

(***************************************************************************)
(* Payment session store (src/unnamed/part_003)                            *)
(***************************************************************************)
MaxSessions == 2
MaxExpiresAt == 600000
SessionWallets == {"w1", "w2"}
SessionIds == 1..MaxSessions
Signatures == {"sig1"}
ExtendMinutes == {5}

expirationMinutes == 5
cleanupGraceMs == 3600000
\* The instants at which calls are observed: a session made at 0 expires at
\* 300000 and may be cleaned up after 3900000; one made at 300000 is at 4200000
\* exactly on its cleanup threshold.
SessionInstants == {0, 300000, 600000, 4200000}

NewSession(w, t) ==
    [walletAddress |-> w, status |-> "pending",
     expiresAt |-> t + expirationMinutes * 60 * 1000,
     paidAt |-> None, transactionSignature |-> NoSig, usedAt |-> None]

\* getSession's mutation with the pending check left out.
GetSessionNoPendingCheck(S, id, t) ==
    IF id \in DOMAIN S /\ t > S[id].expiresAt
    THEN [S EXCEPT ![id].status = "expired"]
    ELSE S

\* getSession: a pending session read after its expiresAt flips to expired.
GetSessionEffect(S, id, t) ==
    IF id \in DOMAIN S /\ S[id].status = "pending" /\ t > S[id].expiresAt
    THEN [S EXCEPT ![id].status = "expired"]
    ELSE S

RECURSIVE GetSessionAll(_, _, _)
GetSessionAll(S, ids, t) ==
    IF ids = {} THEN S
    ELSE LET id == CHOOSE x \in ids : TRUE
         IN GetSessionAll(GetSessionEffect(S, id, t), ids \ {id}, t)

\* createSession without the walletSessions lines.
createSessionUnlisted(w) ==
    /\ nextSessionId <= MaxSessions
    /\ LET id == nextSessionId IN
        /\ sessions' = sessions @@ (id :> NewSession(w, now))
        /\ nextSessionId' = id + 1
        /\ ret' = Ret("createSession", id, w, "", TRUE, None)
    /\ UNCHANGED <<now, walletSessions, lateMarkPaid, usedTrue, lapsed, sessOthers>>

createSession(w) ==
    /\ nextSessionId <= MaxSessions
    /\ LET id == nextSessionId IN
        /\ sessions' = sessions @@ (id :> NewSession(w, now))
        /\ walletSessions' =
              IF w \in DOMAIN walletSessions
              THEN [walletSessions EXCEPT ![w] = @ \cup {id}]
              ELSE walletSessions @@ (w :> {id})
        /\ nextSessionId' = id + 1
        /\ ret' = Ret("createSession", id, w, "", TRUE, None)
    /\ UNCHANGED <<now, lateMarkPaid, usedTrue, lapsed, sessOthers>>

getSession(id) ==
    /\ sessions' = GetSessionEffect(sessions, id, now)
    /\ ret' = Ret("getSession", id, "", "", id \in DOMAIN sessions, None)
    /\ UNCHANGED <<now, walletSessions, nextSessionId, lateMarkPaid, usedTrue, lapsed, sessOthers>>

getSessionsByWallet(w) ==
    /\ sessions' = IF w \in DOMAIN walletSessions
                   THEN GetSessionAll(sessions, walletSessions[w], now)
                   ELSE sessions
    /\ ret' = Ret("getSessionsByWallet", 0, w, "", TRUE,
                  IF w \in DOMAIN walletSessions
                  THEN Cardinality(walletSessions[w] \cap DOMAIN sessions) ELSE 0)
    /\ UNCHANGED <<now, walletSessions, nextSessionId, lateMarkPaid, usedTrue, lapsed, sessOthers>>

\* markSessionPaid without the expiry test.
MarkPaidNoExpiry(S, id, sig, t) ==
    IF id \notin DOMAIN S \/ S[id].status # "pending"
    THEN [s |-> S, ok |-> FALSE]
    ELSE [s |-> [S EXCEPT ![id].status = "paid", ![id].paidAt = t,
                           ![id].transactionSignature = sig], ok |-> TRUE]

\* markSessionPaid: the new map and the returned boolean.
MarkPaidResult(S, id, sig, t) ==
    IF id \notin DOMAIN S THEN [s |-> S, ok |-> FALSE]
    ELSE IF S[id].status # "pending" THEN [s |-> S, ok |-> FALSE]
    ELSE IF t > S[id].expiresAt
         THEN [s |-> [S EXCEPT ![id].status = "expired"], ok |-> FALSE]
    ELSE [s |-> [S EXCEPT ![id].status = "paid", ![id].paidAt = t,
                           ![id].transactionSignature = sig], ok |-> TRUE]

markSessionPaid(id, sig) ==
    /\ LET r == MarkPaidResult(sessions, id, sig, now) IN
        /\ sessions' = r.s
        /\ ret' = Ret("markSessionPaid", id, "", "", r.ok, None)
    /\ lateMarkPaid' =
          IF id \in DOMAIN sessions /\ sessions[id].status = "pending"
             /\ now > sessions[id].expiresAt
          THEN lateMarkPaid \cup {id} ELSE lateMarkPaid
    /\ UNCHANGED <<now, walletSessions, nextSessionId, usedTrue, lapsed, sessOthers>>

\* markSessionUsed without the status test.
MarkUsedNoStatusCheck(S, id, t) ==
    IF id \notin DOMAIN S THEN [s |-> S, ok |-> FALSE]
    ELSE [s |-> [S EXCEPT ![id].status = "used", ![id].usedAt = t], ok |-> TRUE]

\* markSessionUsed: the new map and the returned boolean.
MarkUsedResult(S, id, t) ==
    IF id \notin DOMAIN S THEN [s |-> S, ok |-> FALSE]
    ELSE IF S[id].status # "paid" THEN [s |-> S, ok |-> FALSE]
    ELSE [s |-> [S EXCEPT ![id].status = "used", ![id].usedAt = t], ok |-> TRUE]

markSessionUsed(id) ==
    /\ LET r == MarkUsedResult(sessions, id, now) IN
        /\ sessions' = r.s
        /\ ret' = Ret("markSessionUsed", id, "", "", r.ok, None)
        /\ usedTrue' = IF r.ok THEN [usedTrue EXCEPT ![id] = @ + 1] ELSE usedTrue
    /\ UNCHANGED <<now, walletSessions, nextSessionId, lateMarkPaid, lapsed, sessOthers>>

\* validateSession's result on the session getSession handed back:
\* valid and the reason string.
ValidateResult(S, id) ==
    IF id \notin DOMAIN S THEN [valid |-> FALSE, reason |-> "Session not found"]
    ELSE IF S[id].status = "expired" THEN [valid |-> FALSE, reason |-> "Session expired"]
    ELSE IF S[id].status = "used" THEN [valid |-> FALSE, reason |-> "Session already used"]
    ELSE IF S[id].status = "pending" THEN [valid |-> FALSE, reason |-> "Payment not completed"]
    ELSE IF S[id].status = "paid" THEN [valid |-> TRUE, reason |-> ""]
    ELSE [valid |-> FALSE, reason |-> "Invalid session state"]

validateSession(id) ==
    /\ sessions' = GetSessionEffect(sessions, id, now)
    /\ LET r == ValidateResult(sessions', id) IN
          ret' = [Ret("validateSession", id, "", "", r.valid, None) EXCEPT !.reason = r.reason]
    /\ UNCHANGED <<now, walletSessions, nextSessionId, lateMarkPaid, usedTrue, lapsed, sessOthers>>

\* The sessions cleanupExpiredSessions deletes at time t.
CleanedSessions(S, t) ==
    {id \in DOMAIN S : t > S[id].expiresAt + cleanupGraceMs /\ S[id].status # "paid"}

cleanupExpiredSessions ==
    /\ LET gone == CleanedSessions(sessions, now)
           keep == DOMAIN sessions \ gone
           ws   == [w \in DOMAIN walletSessions |-> walletSessions[w] \ gone]
           \* a wallet's set is deleted only while handling one of its sessions
           drop == {w \in DOMAIN walletSessions :
                       /\ ws[w] = {}
                       /\ \E id \in gone : sessions[id].walletAddress = w
                                           /\ id \in walletSessions[w]}
       IN
        /\ sessions' = [id \in keep |-> sessions[id]]
        /\ walletSessions' = [w \in DOMAIN walletSessions \ drop |-> ws[w]]
        /\ ret' = Ret("cleanupExpiredSessions", 0, "", "", TRUE, Cardinality(gone))
    /\ UNCHANGED <<now, nextSessionId, lateMarkPaid, usedTrue, lapsed, sessOthers>>

extendSession(id, minutes) ==
    /\ IF id \in DOMAIN sessions /\ sessions[id].status = "pending"
       THEN /\ sessions[id].expiresAt + minutes * 60 * 1000 <= MaxExpiresAt
            /\ sessions' = [sessions EXCEPT ![id].expiresAt = @ + minutes * 60 * 1000]
            /\ ret' = Ret("extendSession", id, "", "", TRUE, None)
       ELSE /\ sessions' = sessions
            /\ ret' = Ret("extendSession", id, "", "", FALSE, None)
    /\ UNCHANGED <<now, walletSessions, nextSessionId, lateMarkPaid, usedTrue, lapsed, sessOthers>>

\* getSessionStats: of its result, uniqueWallets (walletSessions.size).
getSessionStats ==
    /\ ret' = Ret("getSessionStats", 0, "", "", TRUE, Cardinality(DOMAIN walletSessions))
    /\ UNCHANGED <<now, sessions, walletSessions, nextSessionId, lateMarkPaid, usedTrue,
                   lapsed, sessOthers>>

\* The sessions that are pending at time t, after their expiresAt.
Lapsed(S, t) == {id \in DOMAIN S : S[id].status = "pending" /\ t > S[id].expiresAt}

SessionTick ==
    /\ \E t \in SessionInstants : t > now /\ now' = t
    /\ lapsed' = lapsed \cup Lapsed(sessions, now')
    /\ UNCHANGED <<ret, sessions, walletSessions, nextSessionId, lateMarkPaid, usedTrue,
                   sessOthers>>

SessionNext ==
    \/ \E w \in SessionWallets : createSession(w)
    \/ \E id \in SessionIds : getSession(id)
    \/ \E w \in SessionWallets : getSessionsByWallet(w)
    \/ \E id \in SessionIds, sig \in Signatures : markSessionPaid(id, sig)
    \/ \E id \in SessionIds : markSessionUsed(id)
    \/ \E id \in SessionIds : validateSession(id)
    \/ cleanupExpiredSessions
    \/ \E id \in SessionIds, m \in ExtendMinutes : extendSession(id, m)
    \/ getSessionStats
    \/ SessionTick

SessionInit ==
    /\ now = 0
    /\ ret = Ret("init", 0, "", "", TRUE, None)
    /\ sessions = << >>
    /\ walletSessions = << >>
    /\ nextSessionId = 1
    /\ lateMarkPaid = {}
    /\ usedTrue = [id \in SessionIds |-> 0]
    /\ lapsed = {}
    /\ rateLimitBuckets = << >>
    /\ usageHistory = << >>
    /\ walletStats = << >>
    /\ globalMetrics = [totalRequests |-> 0, totalPayments |-> 0, totalExecutions |-> 0,
                        blockedWallets |-> 0, totalViolations |-> 0, requestsPerMinute |-> 0]
    /\ escrowAccounts = << >>
    /\ escrowsByDepositor = << >>
    /\ escrowsByBeneficiary = << >>
    /\ activeDisputes = << >>
    /\ escrowMetrics = [totalEscrows |-> 0, activeEscrows |-> 0, totalReleased |-> 0,
                        totalRefunded |-> 0, totalDisputed |-> 0, totalFeesCollected |-> 0]
    /\ nextEscrowId = 1
    /\ releaseTrue = << >>
    /\ agentPricing = << >>
    /\ demandMetrics = << >>
    /\ pricingHistory = << >>
    /\ discountRules = << >>
    /\ walletVolume = << >>
    /\ networkHistory = << >>
    /\ currentNetworkState = << >>
    /\ gateRequests = << >>
    /\ facilitatorCalls = << >>
    /\ transactionStates = << >>
    /\ authSessions = << >>
    /\ activeTokens = << >>
    /\ authMetrics = [totalAuthAttempts |-> 0, successfulAuths |-> 0, failedAuths |-> 0, activeTokens |-> 0, lockedWallets |-> 0]
    /\ nextAuthToken = 1
    /\ authLock = << >>
    /\ invalidRun = << >>
    /\ fetchRun = << >>
    /\ taskQueue = << >>
    /\ orchTasks = << >>
    /\ activeTasks = {}
    /\ completedTasks = << >>
    /\ agents = << >>
    /\ agentInstances = << >>
    /\ taskHandlers = {}
    /\ resumes = 0
    /\ schedulerQueue = << >>
    /\ schedulerRet = [op |-> "none", taskId |-> NoTaskId, ok |-> FALSE]
    /\ schedulerCalls = 0

SessionSpec == SessionInit /\ [][SessionNext]_vars

StatusSteps == {<<"pending", "paid">>, <<"pending", "expired">>, <<"paid", "used">>}

\* C1: over any sequence of session calls and cleanups, a session's status
\* changes only pending->paid, pending->expired or paid->used; expired and
\* used are never left, paid never becomes expired, and a session that
\* appears is a fresh pending one (a removed id never comes back).
C1_StatusTransitions ==
    [][ /\ \A id \in DOMAIN sessions \cap DOMAIN sessions' :
              \/ sessions'[id].status = sessions[id].status
              \/ <<sessions[id].status, sessions'[id].status>> \in StatusSteps
        /\ \A id \in DOMAIN sessions' \ DOMAIN sessions :
              id = nextSessionId /\ sessions'[id].status = "pending" ]_vars

C1_Witness ==
    \E a, b \in DOMAIN sessions :
        /\ sessions[a].status = "used"
        /\ sessions[b].status = "expired"
        /\ ret.op = "cleanupExpiredSessions"

\* C2: once markSessionPaid has been called on a pending session after its
\* expiresAt, the session is expired with paidAt and transactionSignature
\* unset, and that call and every later markSessionPaid on it return false.
C2_LatePaymentRefused ==
    \A id \in lateMarkPaid :
        /\ id \in DOMAIN sessions =>
              /\ sessions[id].status = "expired"
              /\ sessions[id].paidAt = None
              /\ sessions[id].transactionSignature = NoSig
        /\ (ret.op = "markSessionPaid" /\ ret.id = id) => ~ret.ok

C2_Witness ==
    /\ ret.op = "markSessionPaid"
    /\ ret.id \in lateMarkPaid
    /\ ret.id \in DOMAIN sessions
    /\ now > sessions[ret.id].expiresAt
    /\ ~ret.ok

\* C3: validateSession returns valid=true exactly when the session exists with
\* status paid; markSessionUsed returns true at most once per session id, and
\* once it has, validateSession for that id is never valid again.
C3_SingleUse ==
    /\ ret.op = "validateSession" =>
          (ret.ok <=> (ret.id \in DOMAIN sessions /\ sessions[ret.id].status = "paid"))
    /\ \A id \in SessionIds : usedTrue[id] <= 1
    /\ (ret.op = "validateSession" /\ usedTrue[ret.id] >= 1) => ~ret.ok

C3_Witness ==
    /\ ret.op = "validateSession"
    /\ usedTrue[ret.id] = 1
    /\ ret.reason = "Session already used"


\* C31: a session that was seen pending at a time after its expiresAt is
\* never paid afterwards.
C31_LapsedNeverPaid ==
    \A id \in lapsed \cap DOMAIN sessions : sessions[id].status # "paid"

\* C40: a session id is listed under wallet w in walletSessions exactly when
\* sessions holds that id with walletAddress w, no wallet maps to the empty
\* set, and the uniqueWallets that getSessionStats returns is the number of
\* distinct wallets with a stored session.
C40_MapsConsistent ==
    /\ \A w \in DOMAIN walletSessions :
          /\ walletSessions[w] # {}
          /\ \A id \in walletSessions[w] :
                id \in DOMAIN sessions /\ sessions[id].walletAddress = w
    /\ \A id \in DOMAIN sessions :
          /\ sessions[id].walletAddress \in DOMAIN walletSessions
          /\ id \in walletSessions[sessions[id].walletAddress]
    /\ ret.op = "getSessionStats" =>
          ret.val = Cardinality({sessions[id].walletAddress : id \in DOMAIN sessions})

\* After a cleanup that removed the only session of one wallet and kept the
\* session of another, getSessionStats counts one wallet.
C40_Witness ==
    /\ ret.op = "getSessionStats"
    /\ ret.val = 1
    /\ nextSessionId = 3
    /\ Cardinality(DOMAIN sessions) = 1
    /\ now = 4200000

(***************************************************************************)
(* Rate limiter (src/server/services/x402-ratelimit.ts)                    *)
(***************************************************************************)
WINDOW_SIZE_MS == 60000
MAX_REQUESTS_PER_WINDOW == 100
MAX_PAYMENTS_PER_WINDOW == 20
MAX_EXECUTIONS_PER_WINDOW == 50
COOLDOWN_PERIOD_MS == 300000
MAX_HISTORY_SIZE == 10000
DefaultMaxAgeMs == 3600000

RateLimitTypes == {"request", "payment", "execution"}
RateWallets == {"w1"}
\* recordUsage records while fewer than MaxRecorded calls were recorded and
\* refuses while fewer than MaxViolations were refused.
MaxRecorded == 169
MaxViolations == 3
\* The instants at which calls are observed: inside the first window, on its
\* end, and on the end of a cooldown started at 0.
RateInstants == {0, 30000, 60000, 300000}
\* The ages cleanupOldData is called with: its default and two minutes.
CleanupMaxAges == {DefaultMaxAgeMs, 120000}

getBucketKey(w, type) == <<w, type>>

getMaxForType(type) ==
    CASE type = "request" -> MAX_REQUESTS_PER_WINDOW
      [] type = "payment" -> MAX_PAYMENTS_PER_WINDOW
      [] type = "execution" -> MAX_EXECUTIONS_PER_WINDOW

\* The bucket both functions install when there is none or its window is over:
\* count 0, not blocked, violations carried over.
FreshBucket(B, k, t) ==
    [windowStart |-> t, count |-> 0, blocked |-> FALSE, blockedUntil |-> None,
     violations |-> IF k \in DOMAIN B THEN B[k].violations ELSE 0]

\* The window test with > in place of >=.
WindowOverStrict(B, k, t) == k \notin DOMAIN B \/ t - B[k].windowStart > WINDOW_SIZE_MS

\* !bucket || now - bucket.windowStart >= WINDOW_SIZE_MS
WindowOver(B, k, t) == k \notin DOMAIN B \/ t - B[k].windowStart >= WINDOW_SIZE_MS

Put(B, k, v) == [x \in DOMAIN B \cup {k} |-> IF x = k THEN v ELSE B[x]]

\* bucket?.blocked && bucket.blockedUntil
BlockSet(B, k) == k \in DOMAIN B /\ B[k].blocked /\ B[k].blockedUntil # None

checkRateLimit(w, type) ==
    LET k == getBucketKey(w, type)
        B == rateLimitBuckets
    IN
    /\ IF BlockSet(B, k) /\ now < B[k].blockedUntil
       THEN /\ rateLimitBuckets' = B
            /\ ret' = Ret("checkRateLimit", 0, w, type, FALSE, 0)
       ELSE LET B1 == IF BlockSet(B, k)
                      THEN [B EXCEPT ![k].blocked = FALSE, ![k].blockedUntil = None]
                      ELSE B
                B2 == IF WindowOver(B1, k, now) THEN Put(B1, k, FreshBucket(B1, k, now)) ELSE B1
                max == getMaxForType(type)
            IN /\ rateLimitBuckets' = B2
               /\ ret' = Ret("checkRateLimit", 0, w, type, B2[k].count < max,
                             IF max - B2[k].count > 0 THEN max - B2[k].count ELSE 0)
    /\ UNCHANGED <<now, usageHistory, walletStats, globalMetrics, rateOthers>>

\* The ceiling test of recordUsage, off by one.
AtCeilingOffByOne(count, max) == count > max

\* recordUsage's ceiling test: bucket.count >= max
AtCeiling(count, max) == count >= max

NewWalletStats(t) ==
    [totalRequests |-> 0, totalPayments |-> 0, totalExecutions |-> 0, totalSpent |-> 0,
     lastActivity |-> t, isBlocked |-> FALSE, violations |-> 0]

\* updateWalletStats, for a call that gives no amount
updateWalletStats(WS, w, type, t) ==
    LET st == IF w \in DOMAIN WS THEN WS[w] ELSE NewWalletStats(t)
        st1 == [st EXCEPT !.lastActivity = t]
        st2 == CASE type = "request" -> [st1 EXCEPT !.totalRequests = @ + 1]
                 [] type = "payment" -> [st1 EXCEPT !.totalPayments = @ + 1]
                 [] type = "execution" -> [st1 EXCEPT !.totalExecutions = @ + 1]
    IN Put(WS, w, st2)

\* usageHistory holds runs of equal consecutive records: [rec, n] stands for
\* n copies of rec in a row.
RECURSIVE HistLenFrom(_, _)
HistLenFrom(H, i) ==
    IF i > Len(H) THEN 0 ELSE H[i].n + HistLenFrom(H, i + 1)

\* usageHistory.length
HistLen(H) == HistLenFrom(H, 1)

RECURSIVE RecentFrom(_, _, _)
RecentFrom(H, i, t) ==
    IF i > Len(H) THEN 0
    ELSE (IF H[i].rec.timestamp > t - 60000 /\ H[i].rec.type = "request" THEN H[i].n ELSE 0)
         + RecentFrom(H, i + 1, t)

\* usageHistory.filter(r => r.timestamp > oneMinuteAgo && r.type === "request").length
RecentRequests(H, t) == RecentFrom(H, 1, t)

\* usageHistory.shift()
ShiftHistory(H) ==
    IF H[1].n > 1 THEN [H EXCEPT ![1].n = @ - 1] ELSE Tail(H)

\* updateGlobalMetrics, on the history the record was already pushed to
updateGlobalMetrics(G, type, H, t) ==
    LET g == CASE type = "request" -> [G EXCEPT !.totalRequests = @ + 1]
               [] type = "payment" -> [G EXCEPT !.totalPayments = @ + 1]
               [] type = "execution" -> [G EXCEPT !.totalExecutions = @ + 1]
    IN [g EXCEPT !.requestsPerMinute = RecentRequests(H, t)]

\* usageHistory.push(record), then shift() when over MAX_HISTORY_SIZE
PushHistory(H, rec) ==
    LET h == IF Len(H) > 0 /\ H[Len(H)].rec = rec
             THEN [H EXCEPT ![Len(H)].n = @ + 1]
             ELSE Append(H, [rec |-> rec, n |-> 1])
    IN IF HistLen(h) > MAX_HISTORY_SIZE THEN ShiftHistory(h) ELSE h

recordUsage(w, type) ==
    LET k == getBucketKey(w, type)
        B == rateLimitBuckets
        B1 == IF WindowOver(B, k, now) THEN Put(B, k, FreshBucket(B, k, now)) ELSE B
        max == getMaxForType(type)
    IN
    /\ IF AtCeiling(B1[k].count, max)
       THEN LET v == B1[k].violations + 1 IN
            /\ globalMetrics.totalViolations < MaxViolations
            /\ rateLimitBuckets' =
                  IF v >= 3
                  THEN [B1 EXCEPT ![k].violations = v, ![k].blocked = TRUE,
                                  ![k].blockedUntil = now + COOLDOWN_PERIOD_MS]
                  ELSE [B1 EXCEPT ![k].violations = v]
            /\ globalMetrics' =
                  [globalMetrics EXCEPT !.totalViolations = @ + 1,
                                        !.blockedWallets = IF v >= 3 THEN @ + 1 ELSE @]
            /\ ret' = Ret("recordUsage", 0, w, type, FALSE, None)
            /\ UNCHANGED <<usageHistory, walletStats>>
       ELSE LET H == PushHistory(usageHistory,
                                 [walletAddress |-> w, type |-> type, timestamp |-> now])
            IN
            /\ HistLen(usageHistory) < MaxRecorded
            /\ rateLimitBuckets' = [B1 EXCEPT ![k].count = @ + 1]
            /\ usageHistory' = H
            /\ walletStats' = updateWalletStats(walletStats, w, type, now)
            /\ globalMetrics' = updateGlobalMetrics(globalMetrics, type, H, now)
            /\ ret' = Ret("recordUsage", 0, w, type, TRUE, None)
    /\ UNCHANGED <<now, rateOthers>>

WalletBlockedKeys(B, w) ==
    {k \in DOMAIN B : k[1] = w /\ B[k].blocked}

isWalletBlocked(w) ==
    /\ ret' = Ret("isWalletBlocked", 0, w, "", WalletBlockedKeys(rateLimitBuckets, w) # {}, None)
    /\ UNCHANGED <<now, rateVars, rateOthers>>

unblockWallet(w) ==
    LET ks == WalletBlockedKeys(rateLimitBuckets, w)
        unblocked == ks # {}
    IN
    /\ rateLimitBuckets' =
          [k \in DOMAIN rateLimitBuckets |->
              IF k \in ks
              THEN [rateLimitBuckets[k] EXCEPT !.blocked = FALSE, !.blockedUntil = None,
                                               !.violations = 0]
              ELSE rateLimitBuckets[k]]
    /\ globalMetrics' =
          IF unblocked
          THEN [globalMetrics EXCEPT !.blockedWallets = IF @ - 1 > 0 THEN @ - 1 ELSE 0]
          ELSE globalMetrics
    /\ walletStats' =
          IF unblocked /\ w \in DOMAIN walletStats
          THEN [walletStats EXCEPT ![w].isBlocked = FALSE, ![w].violations = 0]
          ELSE walletStats
    /\ ret' = Ret("unblockWallet", 0, w, "", unblocked, None)
    /\ UNCHANGED <<now, usageHistory, rateOthers>>

cleanupOldData(maxAgeMs) ==
    LET cutoff == now - maxAgeMs
        gone == {k \in DOMAIN rateLimitBuckets :
                    rateLimitBuckets[k].windowStart < cutoff /\ ~rateLimitBuckets[k].blocked}
    IN
    /\ rateLimitBuckets' = [k \in DOMAIN rateLimitBuckets \ gone |-> rateLimitBuckets[k]]
    /\ ret' = Ret("cleanupOldData", 0, "", "", TRUE, Cardinality(gone))
    /\ UNCHANGED <<now, usageHistory, walletStats, globalMetrics, rateOthers>>

RateTick ==
    /\ \E t \in RateInstants : t > now /\ now' = t
    /\ UNCHANGED <<ret, stores>>

RateLimitNext ==
    \/ \E w \in RateWallets, type \in RateLimitTypes : checkRateLimit(w, type)
    \/ \E w \in RateWallets, type \in RateLimitTypes : recordUsage(w, type)
    \/ \E w \in RateWallets : isWalletBlocked(w)
    \/ \E w \in RateWallets : unblockWallet(w)
    \/ \E age \in CleanupMaxAges : cleanupOldData(age)
    \/ RateTick

\* The rate limiter is started in the state it is in after wallet w1 recorded,
\* at time 0, one call less than the ceiling of each type: 99 requests, then 19
\* payments, then 49 executions (RateLimitInit); the other stores are empty.
WarmBucket(type) ==
    [windowStart |-> 0, count |-> getMaxForType(type) - 1, blocked |-> FALSE,
     blockedUntil |-> None, violations |-> 0]

RateLimitInit ==
    /\ now = 0
    /\ ret = Ret("init", 0, "", "", TRUE, None)
    /\ rateLimitBuckets = [k \in {"w1"} \X RateLimitTypes |-> WarmBucket(k[2])]
    /\ usageHistory =
          [i \in 1..3 |->
              LET type == <<"request", "payment", "execution">>[i]
              IN [rec |-> [walletAddress |-> "w1", type |-> type, timestamp |-> 0],
                  n |-> getMaxForType(type) - 1]]
    /\ walletStats = [w \in {"w1"} |->
                         [totalRequests |-> MAX_REQUESTS_PER_WINDOW - 1,
                          totalPayments |-> MAX_PAYMENTS_PER_WINDOW - 1,
                          totalExecutions |-> MAX_EXECUTIONS_PER_WINDOW - 1,
                          totalSpent |-> 0, lastActivity |-> 0,
                          isBlocked |-> FALSE, violations |-> 0]]
    /\ globalMetrics = [totalRequests |-> MAX_REQUESTS_PER_WINDOW - 1,
                        totalPayments |-> MAX_PAYMENTS_PER_WINDOW - 1,
                        totalExecutions |-> MAX_EXECUTIONS_PER_WINDOW - 1,
                        blockedWallets |-> 0, totalViolations |-> 0,
                        requestsPerMinute |-> MAX_REQUESTS_PER_WINDOW - 1]
    /\ sessions = << >>
    /\ walletSessions = << >>
    /\ nextSessionId = 1
    /\ lateMarkPaid = {}
    /\ usedTrue = [id \in SessionIds |-> 0]
    /\ lapsed = {}
    /\ escrowAccounts = << >>
    /\ escrowsByDepositor = << >>
    /\ escrowsByBeneficiary = << >>
    /\ activeDisputes = << >>
    /\ escrowMetrics = [totalEscrows |-> 0, activeEscrows |-> 0, totalReleased |-> 0,
                        totalRefunded |-> 0, totalDisputed |-> 0, totalFeesCollected |-> 0]
    /\ nextEscrowId = 1
    /\ releaseTrue = << >>
    /\ agentPricing = << >>
    /\ demandMetrics = << >>
    /\ pricingHistory = << >>
    /\ discountRules = << >>
    /\ walletVolume = << >>
    /\ networkHistory = << >>
    /\ currentNetworkState = << >>
    /\ gateRequests = << >>
    /\ facilitatorCalls = << >>
    /\ transactionStates = << >>
    /\ authSessions = << >>
    /\ activeTokens = << >>
    /\ authMetrics = [totalAuthAttempts |-> 0, successfulAuths |-> 0, failedAuths |-> 0, activeTokens |-> 0, lockedWallets |-> 0]
    /\ nextAuthToken = 1
    /\ authLock = << >>
    /\ invalidRun = << >>
    /\ fetchRun = << >>
    /\ taskQueue = << >>
    /\ orchTasks = << >>
    /\ activeTasks = {}
    /\ completedTasks = << >>
    /\ agents = << >>
    /\ agentInstances = << >>
    /\ taskHandlers = {}
    /\ resumes = 0
    /\ schedulerQueue = << >>
    /\ schedulerRet = [op |-> "none", taskId |-> NoTaskId, ok |-> FALSE]
    /\ schedulerCalls = 0

RateLimitSpec == RateLimitInit /\ [][RateLimitNext]_vars

RateKeys == RateWallets \X RateLimitTypes

\* A step that is a call of op for bucket k (calls do not move the clock).
RateCall(op, k) ==
    /\ now' = now
    /\ ret'.op = op
    /\ getBucketKey(ret'.wallet, ret'.type) = k

\* C4: every bucket's count is at most the ceiling of its type; checkRateLimit
\* answers allowed=false when the current window's count equals the ceiling;
\* recordUsage called at the ceiling returns false and leaves count as it is.
C4_CountWithinCeiling ==
    /\ [](\A k \in DOMAIN rateLimitBuckets :
             /\ rateLimitBuckets[k].count <= getMaxForType(k[2])
             /\ (/\ ret.op = "checkRateLimit"
                 /\ getBucketKey(ret.wallet, ret.type) = k
                 /\ rateLimitBuckets[k].count = getMaxForType(k[2])) => ~ret.ok)
    /\ [][\A k \in DOMAIN rateLimitBuckets :
             (/\ RateCall("recordUsage", k)
              /\ ~WindowOver(rateLimitBuckets, k, now)
              /\ rateLimitBuckets[k].count = getMaxForType(k[2]))
             => (/\ ~ret'.ok
                 /\ k \in DOMAIN rateLimitBuckets'
                 /\ rateLimitBuckets'[k].count = rateLimitBuckets[k].count)]_vars

C4_Witness ==
    /\ ret.op = "recordUsage"
    /\ ret.type = "request"
    /\ ~ret.ok
    /\ rateLimitBuckets[<<"w1", "request">>].count = MAX_REQUESTS_PER_WINDOW
    /\ rateLimitBuckets[<<"w1", "payment">>].count = MAX_PAYMENTS_PER_WINDOW

\* C5: a checkRateLimit or recordUsage call that brings a bucket to three
\* violations blocks it until now + 300000; while a bucket is blocked and the
\* time is before its blockedUntil, no such call changes blocked or
\* blockedUntil; a checkRateLimit from blockedUntil on finds it unblocked.
C5_BlockLastsCooldown ==
    [][\A k \in DOMAIN rateLimitBuckets \cap DOMAIN rateLimitBuckets' :
          (now' = now /\ ret'.op \in {"checkRateLimit", "recordUsage"}) =>
             /\ (rateLimitBuckets[k].violations < 3 /\ rateLimitBuckets'[k].violations >= 3)
                   => /\ rateLimitBuckets'[k].blocked
                      /\ rateLimitBuckets'[k].blockedUntil = now + COOLDOWN_PERIOD_MS
             /\ (BlockSet(rateLimitBuckets, k) /\ now < rateLimitBuckets[k].blockedUntil)
                   => /\ rateLimitBuckets'[k].blocked
                      /\ rateLimitBuckets'[k].blockedUntil = rateLimitBuckets[k].blockedUntil
             /\ (/\ BlockSet(rateLimitBuckets, k)
                 /\ now >= rateLimitBuckets[k].blockedUntil
                 /\ RateCall("checkRateLimit", k))
                   => ~rateLimitBuckets'[k].blocked]_vars

\* C6: a recordUsage call for a bucket that is blocked, made before its
\* blockedUntil, returns false and leaves the bucket's count, the usage
\* history, the wallet statistics and the usage totals as they are.
C6_BlockedUsageRefused ==
    [][\A k \in DOMAIN rateLimitBuckets :
          (/\ RateCall("recordUsage", k)
           /\ BlockSet(rateLimitBuckets, k)
           /\ now < rateLimitBuckets[k].blockedUntil)
          => (/\ ~ret'.ok
              /\ k \in DOMAIN rateLimitBuckets'
              /\ rateLimitBuckets'[k].count = rateLimitBuckets[k].count
              /\ usageHistory' = usageHistory
              /\ walletStats' = walletStats
              /\ globalMetrics'.totalRequests = globalMetrics.totalRequests
              /\ globalMetrics'.totalPayments = globalMetrics.totalPayments
              /\ globalMetrics'.totalExecutions = globalMetrics.totalExecutions)]_vars

ESCROW_EXPIRY_MS == 86400000
\* MAX_ESCROW_AMOUNT = 1000 and MIN_ESCROW_AMOUNT = 0.001, in thousandths
MAX_ESCROW_AMOUNT == 1000000
MIN_ESCROW_AMOUNT == 1
\* ESCROW_FEE_PERCENT = 0.5: five millionths of fee per thousandth of amount
ESCROW_FEE_PERCENT == 5

MaxEscrows == 2
MaxEscrowExpiresAt == 172800000
EscrowIds == 1..MaxEscrows

\* A wallet address: its text, its length and whether all of its characters
\* are in the base58 alphabet [1-9A-HJ-NP-Za-km-z].
AddrA == [name |-> "A", len |-> 32, base58 |-> TRUE]
AddrB == [name |-> "B", len |-> 44, base58 |-> TRUE]
AddrShort == [name |-> "S", len |-> 31, base58 |-> TRUE]
AddrLong == [name |-> "L", len |-> 45, base58 |-> TRUE]
AddrZero == [name |-> "Z", len |-> 40, base58 |-> FALSE]
EscrowDepositors == {AddrA, AddrShort, AddrZero}
EscrowBeneficiaries == {AddrA, AddrB, AddrLong}
EscrowCallers == {AddrA, AddrB, AddrLong}
\* 0, 0.001, 10, 1000 and 1000.001
EscrowAmounts == {0, 1, 10000, 1000000, 1000001}
EscrowExtensions == {ESCROW_EXPIRY_MS}
Resolutions == {"release", "refund", "split"}
\* The instants at which calls are observed: an escrow made at 0 with the
\* default expiry is at 86400000 exactly on its expiry and at 172800000 past it.
EscrowInstants == {0, 86400000, 172800000}

\* /^[1-9A-HJ-NP-Za-km-z]{32,44}$/.test(address)
validateSolanaAddress(a) == a.base58 /\ a.len >= 32 /\ a.len <= 44

\* The fee at ten times the rate.
calculateEscrowFeeTenfold(amount) == amount * ESCROW_FEE_PERCENT * 10

\* amount * (ESCROW_FEE_PERCENT / 100), in millionths
calculateEscrowFee(amount) == amount * ESCROW_FEE_PERCENT

AddToIndex(M, key, id) ==
    IF key \in DOMAIN M THEN [M EXCEPT ![key] = @ \cup {id}] ELSE M @@ (key :> {id})

createEscrow(depositor, beneficiary, amount, expiryMs) ==
    /\ nextEscrowId <= MaxEscrows
    /\ IF \/ ~validateSolanaAddress(depositor) \/ ~validateSolanaAddress(beneficiary)
          \/ amount < MIN_ESCROW_AMOUNT \/ amount > MAX_ESCROW_AMOUNT
          \/ depositor = beneficiary
       THEN /\ ret' = Ret("createEscrow", 0, depositor.name, beneficiary.name, FALSE, amount)
            /\ UNCHANGED escVars
       ELSE LET id == nextEscrowId
                escrow == [depositor |-> depositor, beneficiary |-> beneficiary,
                           amount |-> amount, fee |-> calculateEscrowFee(amount),
                           status |-> "held", expiresAt |-> now + expiryMs]
            IN
            /\ escrowAccounts' = escrowAccounts @@ (id :> escrow)
            /\ escrowsByDepositor' = AddToIndex(escrowsByDepositor, depositor, id)
            /\ escrowsByBeneficiary' = AddToIndex(escrowsByBeneficiary, beneficiary, id)
            /\ escrowMetrics' = [escrowMetrics EXCEPT !.totalEscrows = @ + 1,
                                                      !.activeEscrows = @ + 1]
            /\ nextEscrowId' = id + 1
            /\ releaseTrue' = releaseTrue @@ (id :> 0)
            /\ ret' = Ret("createEscrow", id, depositor.name, beneficiary.name, TRUE, amount)
            /\ UNCHANGED activeDisputes
    /\ UNCHANGED <<now, escOthers>>

\* The authorization test of releaseEscrow, letting the beneficiary through.
ReleaseAuthorizedOrBeneficiary(escrow, authorizedBy) ==
    authorizedBy = escrow.depositor \/ authorizedBy = escrow.beneficiary

\* releaseEscrow's authorization test: authorizedBy === escrow.depositor
ReleaseAuthorized(escrow, authorizedBy) == authorizedBy = escrow.depositor

releaseEscrow(id, authorizedBy) ==
    /\ IF /\ id \in DOMAIN escrowAccounts
          /\ escrowAccounts[id].status = "held"
          /\ ReleaseAuthorized(escrowAccounts[id], authorizedBy)
       THEN /\ escrowAccounts' = [escrowAccounts EXCEPT ![id].status = "released"]
            /\ escrowMetrics' =
                  [escrowMetrics EXCEPT !.activeEscrows = @ - 1,
                                        !.totalReleased = @ + 1,
                                        !.totalFeesCollected = @ + escrowAccounts[id].fee]
            /\ releaseTrue' = [releaseTrue EXCEPT ![id] = @ + 1]
            /\ ret' = Ret("releaseEscrow", id, authorizedBy.name, "", TRUE, None)
       ELSE /\ ret' = Ret("releaseEscrow", id, authorizedBy.name, "", FALSE, None)
            /\ UNCHANGED <<escrowAccounts, escrowMetrics, releaseTrue>>
    /\ UNCHANGED <<now, escrowsByDepositor, escrowsByBeneficiary, activeDisputes,
                   nextEscrowId, escOthers>>

\* refundEscrow's metric update with the activeEscrows decrement left out.
RefundMetricsNoDecrement(m) == [m EXCEPT !.totalRefunded = @ + 1]

\* refundEscrow's metric update
RefundMetrics(m) == [m EXCEPT !.activeEscrows = @ - 1, !.totalRefunded = @ + 1]

refundEscrow(id) ==
    /\ IF /\ id \in DOMAIN escrowAccounts
          /\ escrowAccounts[id].status \in {"held", "disputed"}
       THEN /\ escrowAccounts' = [escrowAccounts EXCEPT ![id].status = "refunded"]
            /\ escrowMetrics' = RefundMetrics(escrowMetrics)
            /\ ret' = Ret("refundEscrow", id, "", "", TRUE, None)
       ELSE /\ ret' = Ret("refundEscrow", id, "", "", FALSE, None)
            /\ UNCHANGED <<escrowAccounts, escrowMetrics>>
    /\ UNCHANGED <<now, escrowsByDepositor, escrowsByBeneficiary, activeDisputes,
                   nextEscrowId, releaseTrue, escOthers>>

initiateDispute(id, initiatedBy) ==
    /\ IF \/ id \notin DOMAIN escrowAccounts
          \/ escrowAccounts[id].status # "held"
          \/ (initiatedBy # escrowAccounts[id].depositor
              /\ initiatedBy # escrowAccounts[id].beneficiary)
       THEN /\ ret' = Ret("initiateDispute", id, initiatedBy.name, "", FALSE, None)
            /\ UNCHANGED <<escrowAccounts, activeDisputes, escrowMetrics>>
       ELSE IF id \in DOMAIN activeDisputes
       THEN /\ ret' = Ret("initiateDispute", id, initiatedBy.name, "", TRUE, None)
            /\ UNCHANGED <<escrowAccounts, activeDisputes, escrowMetrics>>
       ELSE /\ escrowAccounts' = [escrowAccounts EXCEPT ![id].status = "disputed"]
            /\ activeDisputes' = activeDisputes @@
                  (id :> [initiatedBy |-> initiatedBy.name])
            /\ escrowMetrics' = [escrowMetrics EXCEPT !.totalDisputed = @ + 1]
            /\ ret' = Ret("initiateDispute", id, initiatedBy.name, "", TRUE, None)
    /\ UNCHANGED <<now, escrowsByDepositor, escrowsByBeneficiary, nextEscrowId,
                   releaseTrue, escOthers>>

\* The status resolveDispute gives the escrow, with "split" refunding.
ResolutionStatusSplitRefunds(resolution) ==
    IF resolution = "release" THEN "released" ELSE "refunded"

\* The status resolveDispute gives the escrow: the branch for "split" (the
\* final else) assigns the same as the branch for "release".
ResolutionStatus(resolution) ==
    IF resolution = "release" THEN "released"
    ELSE IF resolution = "refund" THEN "refunded"
    ELSE "released"

resolveDispute(id, resolution) ==
    /\ IF \/ id \notin DOMAIN activeDisputes
          \/ id \notin DOMAIN escrowAccounts
          \/ escrowAccounts[id].status # "disputed"
       THEN /\ ret' = Ret("resolveDispute", id, "", resolution, FALSE, None)
            /\ UNCHANGED <<escrowAccounts, activeDisputes, escrowMetrics>>
       ELSE /\ escrowAccounts' =
                  [escrowAccounts EXCEPT ![id].status = ResolutionStatus(resolution)]
            /\ escrowMetrics' =
                  IF ResolutionStatus(resolution) = "refunded"
                  THEN [escrowMetrics EXCEPT !.totalRefunded = @ + 1, !.activeEscrows = @ - 1]
                  ELSE [escrowMetrics EXCEPT !.totalReleased = @ + 1, !.activeEscrows = @ - 1]
            /\ activeDisputes' = [d \in DOMAIN activeDisputes \ {id} |-> activeDisputes[d]]
            /\ ret' = Ret("resolveDispute", id, "", resolution, TRUE, None)
    /\ UNCHANGED <<now, escrowsByDepositor, escrowsByBeneficiary, nextEscrowId,
                   releaseTrue, escOthers>>

\* The escrows expired at time t, an escrow counting as stale on its expiry.
StaleEscrowsFromExpiry(E, t) ==
    {id \in DOMAIN E : E[id].status = "held" /\ t >= E[id].expiresAt}

\* checkExpiredEscrows without its test of the status.
StaleEscrowsAnyStatus(E, t) == {id \in DOMAIN E : t > E[id].expiresAt}

\* The escrows checkExpiredEscrows expires at time t.
StaleEscrows(E, t) == {id \in DOMAIN E : E[id].status = "held" /\ t > E[id].expiresAt}

checkExpiredEscrows ==
    /\ LET stale == StaleEscrows(escrowAccounts, now) IN
        /\ escrowAccounts' =
              [id \in DOMAIN escrowAccounts |->
                  IF id \in stale THEN [escrowAccounts[id] EXCEPT !.status = "expired"]
                  ELSE escrowAccounts[id]]
        /\ escrowMetrics' = [escrowMetrics EXCEPT !.activeEscrows = @ - Cardinality(stale)]
        /\ ret' = [Ret("checkExpiredEscrows", 0, "", "", TRUE, Cardinality(stale))
                      EXCEPT !.ids = stale]
    /\ UNCHANGED <<now, escrowsByDepositor, escrowsByBeneficiary, activeDisputes,
                   nextEscrowId, releaseTrue, escOthers>>

extendEscrowExpiry(id, additionalMs) ==
    /\ IF id \in DOMAIN escrowAccounts /\ escrowAccounts[id].status = "held"
       THEN /\ escrowAccounts[id].expiresAt + additionalMs <= MaxEscrowExpiresAt
            /\ escrowAccounts' = [escrowAccounts EXCEPT ![id].expiresAt = @ + additionalMs]
            /\ ret' = Ret("extendEscrowExpiry", id, "", "", TRUE, None)
       ELSE /\ ret' = Ret("extendEscrowExpiry", id, "", "", FALSE, None)
            /\ UNCHANGED escrowAccounts
    /\ UNCHANGED <<now, escrowsByDepositor, escrowsByBeneficiary, activeDisputes,
                   escrowMetrics, nextEscrowId, releaseTrue, escOthers>>

\* getActiveEscrows(): the escrows that are held or disputed
getActiveEscrows(E) == {id \in DOMAIN E : E[id].status \in {"held", "disputed"}}

EscrowTick ==
    /\ \E t \in EscrowInstants : t > now /\ now' = t
    /\ UNCHANGED <<ret, stores>>

EscrowNext ==
    \/ \E d \in EscrowDepositors, b \in EscrowBeneficiaries, a \in EscrowAmounts :
          createEscrow(d, b, a, ESCROW_EXPIRY_MS)
    \/ \E id \in EscrowIds, by \in EscrowCallers : releaseEscrow(id, by)
    \/ \E id \in EscrowIds : refundEscrow(id)
    \/ \E id \in EscrowIds, by \in EscrowCallers : initiateDispute(id, by)
    \/ \E id \in EscrowIds, r \in Resolutions : resolveDispute(id, r)
    \/ checkExpiredEscrows
    \/ \E id \in EscrowIds, ms \in EscrowExtensions : extendEscrowExpiry(id, ms)
    \/ EscrowTick

EscrowInit ==
    /\ now = 0
    /\ ret = Ret("init", 0, "", "", TRUE, None)
    /\ escrowAccounts = << >>
    /\ escrowsByDepositor = << >>
    /\ escrowsByBeneficiary = << >>
    /\ activeDisputes = << >>
    /\ escrowMetrics = [totalEscrows |-> 0, activeEscrows |-> 0, totalReleased |-> 0,
                        totalRefunded |-> 0, totalDisputed |-> 0, totalFeesCollected |-> 0]
    /\ nextEscrowId = 1
    /\ releaseTrue = << >>
    /\ sessions = << >>
    /\ walletSessions = << >>
    /\ nextSessionId = 1
    /\ lateMarkPaid = {}
    /\ usedTrue = [id \in SessionIds |-> 0]
    /\ lapsed = {}
    /\ rateLimitBuckets = << >>
    /\ usageHistory = << >>
    /\ walletStats = << >>
    /\ globalMetrics = [totalRequests |-> 0, totalPayments |-> 0, totalExecutions |-> 0,
                        blockedWallets |-> 0, totalViolations |-> 0, requestsPerMinute |-> 0]
    /\ agentPricing = << >>
    /\ demandMetrics = << >>
    /\ pricingHistory = << >>
    /\ discountRules = << >>
    /\ walletVolume = << >>
    /\ networkHistory = << >>
    /\ currentNetworkState = << >>
    /\ gateRequests = << >>
    /\ facilitatorCalls = << >>
    /\ transactionStates = << >>
    /\ authSessions = << >>
    /\ activeTokens = << >>
    /\ authMetrics = [totalAuthAttempts |-> 0, successfulAuths |-> 0, failedAuths |-> 0, activeTokens |-> 0, lockedWallets |-> 0]
    /\ nextAuthToken = 1
    /\ authLock = << >>
    /\ invalidRun = << >>
    /\ fetchRun = << >>
    /\ taskQueue = << >>
    /\ orchTasks = << >>
    /\ activeTasks = {}
    /\ completedTasks = << >>
    /\ agents = << >>
    /\ agentInstances = << >>
    /\ taskHandlers = {}
    /\ resumes = 0
    /\ schedulerQueue = << >>
    /\ schedulerRet = [op |-> "none", taskId |-> NoTaskId, ok |-> FALSE]
    /\ schedulerCalls = 0

EscrowSpec == EscrowInit /\ [][EscrowNext]_vars

\* A step that is a call of op on escrow id (calls do not move the clock).
EscrowCall(op, id) ==
    /\ now' = now
    /\ ret'.op = op
    /\ ret'.id = id

\* C7: releaseEscrow by anyone but the recorded depositor returns false and
\* leaves the escrows, the disputes and the metrics as they are; for each
\* escrow id releaseEscrow returns true at most once.
C7_ReleaseByDepositorOnce ==
    /\ [](\A id \in DOMAIN releaseTrue : releaseTrue[id] <= 1)
    /\ [][\A id \in DOMAIN escrowAccounts :
             (/\ EscrowCall("releaseEscrow", id)
              /\ ret'.wallet # escrowAccounts[id].depositor.name)
             => (/\ ~ret'.ok
                 /\ escrowAccounts' = escrowAccounts
                 /\ activeDisputes' = activeDisputes
                 /\ escrowMetrics' = escrowMetrics)]_vars

C7_Witness ==
    /\ ret.op = "releaseEscrow"
    /\ ~ret.ok
    /\ ret.id \in DOMAIN escrowAccounts
    /\ escrowAccounts[ret.id].status = "held"
    /\ ret.wallet = escrowAccounts[ret.id].beneficiary.name
    /\ \E id \in DOMAIN releaseTrue : releaseTrue[id] = 1

ValidAddressNames ==
    {a.name : a \in {x \in EscrowDepositors \cup EscrowBeneficiaries : validateSolanaAddress(x)}}

\* C8: createEscrow with two distinct valid addresses and an amount within
\* [0.001, 1000] returns a held record whose fee is 0.5% of the amount (0.05
\* for amount 10); refundEscrow called next on that record returns true and
\* sets its status to refunded.
C8_CreateThenRefund ==
    /\ []((/\ ret.op = "createEscrow"
           /\ ret.wallet \in ValidAddressNames /\ ret.type \in ValidAddressNames
           /\ ret.wallet # ret.type
           /\ ret.val >= 1 /\ ret.val <= 1000000)
          => (/\ ret.ok
              /\ ret.id \in DOMAIN escrowAccounts
              /\ escrowAccounts[ret.id].status = "held"
              /\ escrowAccounts[ret.id].amount = ret.val
              /\ escrowAccounts[ret.id].fee * 200 = ret.val * 1000
              /\ (ret.val = 10000 => escrowAccounts[ret.id].fee = 50000)))
    /\ [][\A id \in DOMAIN escrowAccounts :
             (/\ EscrowCall("refundEscrow", id)
              /\ ret.op = "createEscrow" /\ ret.ok /\ ret.id = id)
             => (ret'.ok /\ escrowAccounts'[id].status = "refunded")]_vars

C8_Witness ==
    /\ ret.op = "refundEscrow"
    /\ ret.ok
    /\ escrowAccounts[ret.id].status = "refunded"
    /\ escrowAccounts[ret.id].amount = 10000
    /\ escrowAccounts[ret.id].fee = 50000
    /\ escrowMetrics.totalDisputed = 0
    /\ escrowMetrics.totalEscrows = 1

\* C9: the metric activeEscrows equals the number of escrows that are held or
\* disputed, the size of getActiveEscrows(), and is never negative.
C9_ActiveEscrowsMetric ==
    /\ escrowMetrics.activeEscrows = Cardinality(getActiveEscrows(escrowAccounts))
    /\ escrowMetrics.activeEscrows >= 0

C9_Witness ==
    /\ escrowMetrics.activeEscrows = 0
    /\ \E a, b \in DOMAIN escrowAccounts :
          /\ escrowAccounts[a].status = "refunded"
          /\ escrowAccounts[b].status = "expired"
    /\ escrowMetrics.totalDisputed = 1

\* C10: an escrow that is disputed stays disputed in every step that is not a
\* resolveDispute call for it.
C10_DisputeFreezes ==
    [][\A id \in DOMAIN escrowAccounts :
          (escrowAccounts[id].status = "disputed" /\ ~EscrowCall("resolveDispute", id))
          => escrowAccounts'[id].status = "disputed"]_vars

\* The escrows, disputes and metrics after the dispute on escrow id has been
\* resolved to status st, counted in the metric named total.
ResolvedTo(id, st, total) ==
    /\ escrowAccounts' = [escrowAccounts EXCEPT ![id].status = st]
    /\ escrowMetrics' = [escrowMetrics EXCEPT ![total] = @ + 1, !.activeEscrows = @ - 1]
    /\ id \notin DOMAIN activeDisputes'
    /\ \A d \in DOMAIN activeDisputes \ {id} :
          d \in DOMAIN activeDisputes' /\ activeDisputes'[d] = activeDisputes[d]
    /\ DOMAIN activeDisputes' \subseteq DOMAIN activeDisputes

\* C11: a successful resolveDispute with resolution split has exactly the
\* effect of one with resolution release (status released, totalReleased + 1,
\* activeEscrows - 1, dispute entry removed, nothing else changed); resolution
\* refund gives status refunded and totalRefunded + 1 instead.
C11_SplitIsRelease ==
    [][\A id \in DOMAIN escrowAccounts :
          (EscrowCall("resolveDispute", id) /\ escrowAccounts[id].status = "disputed"
             /\ id \in DOMAIN activeDisputes)
          => /\ ret'.ok
             /\ ret'.type \in {"release", "split"} => ResolvedTo(id, "released", "totalReleased")
             /\ ret'.type = "refund" => ResolvedTo(id, "refunded", "totalRefunded")]_vars

C11_Witness ==
    /\ ret.op = "resolveDispute" /\ ret.ok /\ ret.type = "split"
    /\ escrowAccounts[ret.id].status = "released"
    /\ escrowMetrics.totalReleased = 1
    /\ escrowMetrics.totalRefunded = 0
    /\ ret.id \notin DOMAIN activeDisputes

\* C12: checkExpiredEscrows turns into expired exactly the escrows that are
\* held with the time later than expiresAt, returns exactly their ids and
\* leaves every other escrow as it is.
C12_ExpirySweepFrame ==
    [][(now' = now /\ ret'.op = "checkExpiredEscrows") =>
          /\ DOMAIN escrowAccounts' = DOMAIN escrowAccounts
          /\ ret'.ids = {id \in DOMAIN escrowAccounts :
                            /\ escrowAccounts[id].status = "held"
                            /\ now > escrowAccounts[id].expiresAt}
          /\ \A id \in DOMAIN escrowAccounts :
                IF escrowAccounts[id].status = "held" /\ now > escrowAccounts[id].expiresAt
                THEN escrowAccounts'[id] = [escrowAccounts[id] EXCEPT !.status = "expired"]
                ELSE escrowAccounts'[id] = escrowAccounts[id]]_vars

C12_Witness ==
    /\ ret.op = "checkExpiredEscrows"
    /\ ret.ids # {}
    /\ \A id \in ret.ids : escrowAccounts[id].status = "expired"
    /\ \E id \in DOMAIN escrowAccounts :
          /\ id \notin ret.ids
          /\ escrowAccounts[id].status = "held"
          /\ escrowAccounts[id].expiresAt = now

TerminalStatuses == {"released", "refunded", "expired"}

\* C30: an escrow that is released, refunded or expired keeps its status in
\* every step; releaseEscrow, refundEscrow, initiateDispute, resolveDispute and
\* extendEscrowExpiry on it fail and leave its record as it is, and
\* checkExpiredEscrows does not return it.
C30_TerminalStatuses ==
    [][\A id \in DOMAIN escrowAccounts :
          escrowAccounts[id].status \in TerminalStatuses =>
              /\ id \in DOMAIN escrowAccounts'
              /\ escrowAccounts'[id] = escrowAccounts[id]
              /\ \A op \in {"releaseEscrow", "refundEscrow", "initiateDispute",
                             "resolveDispute", "extendEscrowExpiry"} :
                    EscrowCall(op, id) => ~ret'.ok
              /\ EscrowCall("checkExpiredEscrows", 0) => id \notin ret'.ids]_vars

\* Past its expiry time a released escrow has been swept over by
\* checkExpiredEscrows, which expired another one, and then refused an extension.
C30_Witness ==
    /\ ret.op = "extendEscrowExpiry"
    /\ ~ret.ok
    /\ ret.id \in DOMAIN escrowAccounts
    /\ escrowAccounts[ret.id].status = "released"
    /\ now > escrowAccounts[ret.id].expiresAt
    /\ \E other \in DOMAIN escrowAccounts : escrowAccounts[other].status = "expired"

\* C33: a step that takes an escrow from held to released, which only
\* releaseEscrow makes, happens at a time no later than the escrow's expiresAt.
C33_NoReleasePastExpiry ==
    [][\A id \in DOMAIN escrowAccounts :
           (escrowAccounts[id].status = "held" /\ escrowAccounts'[id].status = "released")
               => now <= escrowAccounts[id].expiresAt]_vars

\* C36: activeDisputes holds an entry for an escrow id exactly when that
\* escrow's status is disputed.
C36_DisputeEntryIffDisputed ==
    \A id \in EscrowIds :
        id \in DOMAIN activeDisputes <=>
            (id \in DOMAIN escrowAccounts /\ escrowAccounts[id].status = "disputed")

\* The fees of the released escrows, in millionths.
RECURSIVE FeesOf(_, _)
FeesOf(E, ids) ==
    IF ids = {} THEN 0
    ELSE LET id == CHOOSE x \in ids : TRUE IN E[id].fee + FeesOf(E, ids \ {id})

\* C37: totalFeesCollected is the sum of the fees of the escrows whose status
\* is released.
C37_FeesOfReleased ==
    escrowMetrics.totalFeesCollected =
        FeesOf(escrowAccounts, {id \in DOMAIN escrowAccounts :
                                    escrowAccounts[id].status = "released"})

(***************************************************************************)
(* Pricing engine (src/server/services/x402-pricing.ts)                    *)
(* Demand multipliers are in ten-thousandths (1.0 is 10000) and a product  *)
(* is cut to a ten-thousandth where the code rounds it to a double; tier   *)
(* multipliers are in halves.  averageRequests is the exact dyadic         *)
(* fraction <<n, e>> = n / 2^e.  An amount of calculatePrice is an exact   *)
(* fraction over AmountUnit.  The field customRates is stored and never    *)
(* read, and is left out.                                                  *)
(***************************************************************************)
BASE_PRICE_LAMPORTS == 100000
\* MIN_PRICE_MULTIPLIER = 0.5 and MAX_PRICE_MULTIPLIER = 3.0, in ten-thousandths
MIN_PRICE_MULTIPLIER == 5000
MAX_PRICE_MULTIPLIER == 30000
PRICE_UPDATE_INTERVAL_MS == 60000
DEMAND_WINDOW_MS == 300000
\* currentMultiplier: 1.0
MultiplierOne == 10000
\* history.length > 100
MaxPricingHistory == 100
\* 2 (halves of the tier multiplier) * 10000 (multiplier) * 100 (percent)
AmountUnit == 2000000

\* tierMultipliers with the free tier charged as basic.
tierMultipliersFreeCharged ==
    [free |-> 2, basic |-> 2, standard |-> 3, premium |-> 5, enterprise |-> 8]

\* tierMultipliers, in halves: 0, 1, 1.5, 2.5, 4
tierMultipliers ==
    [free |-> 0, basic |-> 2, standard |-> 3, premium |-> 5, enterprise |-> 8]

modelDefaults ==
    [per_request |-> BASE_PRICE_LAMPORTS, per_token |-> BASE_PRICE_LAMPORTS \div 1000,
     per_minute |-> BASE_PRICE_LAMPORTS * 10, flat_rate |-> BASE_PRICE_LAMPORTS * 100]

MaxRequestCount == 12
MaxWalletVolume == 10
MaxAverageExp == 5
MaxRules == 2

\* The instant at which the calls start to be observed, and the later instants:
\* one and two update intervals on, and past one demand window.
PricingStart == 1000000
PricingInstants ==
    {PricingStart, PricingStart + 60000, PricingStart + 120000, PricingStart + 300001}
\* The instants at which prices are quoted: the second is the validUntil of
\* the promotional rule, the third is past it and past the demand window.
DiscountInstants == {PricingStart, PricingStart + 60000, PricingStart + 300001}
PricingAgents == {"a1"}
PricingWallets == {"w1", "w2"}
\* The options given to registerAgentPricing (a field left out is undefined).
PricingOptions ==
    {[basePrice |-> 20], [basePrice |-> 20, tier |-> "free"],
     [basePrice |-> 20, tier |-> "basic", dynamicPricing |-> FALSE]}
\* The updates given to updateAgentPricing.
PricingUpdates ==
    {[tier |-> "free"], [tier |-> "standard"], [dynamicPricing |-> TRUE], [basePrice |-> -3]}
\* The updates given to updateAgentPricing while prices are quoted.
DiscountUpdates == {[tier |-> "free"], [basePrice |-> -3]}
\* The wallet whose requests are recorded while prices are quoted; the other
\* wallet keeps a volume of 0.
DiscountRequesters == {"w1"}
PricingUnits == {1, 2}
RequestAmounts == {5}
\* The rules given to createDiscountRule: name, type, discountPercent, options.
DiscountInputs ==
    {[name |-> "vol", type |-> "volume", discountPercent |-> 10, minVolume |-> 10],
     [name |-> "loyal", type |-> "loyalty", discountPercent |-> 20],
     [name |-> "promo", type |-> "promotional", discountPercent |-> 5,
      validUntil |-> PricingStart + 60000],
     [name |-> "vip", type |-> "wallet_specific", discountPercent |-> 150,
      walletAddresses |-> {"w1"}]}

Min2(a, b) == IF a <= b THEN a ELSE b
Max2(a, b) == IF a >= b THEN a ELSE b
SetMax(S) == CHOOSE x \in S : \A y \in S : y <= x
RECURSIVE Pow2(_)
Pow2(e) == IF e = 0 THEN 1 ELSE 2 * Pow2(e - 1)
\* The dyadic fraction n / 2^e in lowest terms.
RECURSIVE Dyadic(_, _)
Dyadic(n, e) == IF e > 0 /\ n % 2 = 0 THEN Dyadic(n \div 2, e - 1) ELSE <<n, e>>

Opt(o, field, default) == IF field \in DOMAIN o THEN o[field] ELSE default

\* Math.min(MAX_PRICE_MULTIPLIER, currentMultiplier * 1.1) without the Math.min.
RaiseMultiplierUnclamped(m) == (m * 11) \div 10

\* Math.min(MAX_PRICE_MULTIPLIER, pricing.currentMultiplier * 1.1)
RaiseMultiplier(m) == Min2(MAX_PRICE_MULTIPLIER, (m * 11) \div 10)

\* The cut of the multiplier with factor 0.9 in place of 0.95.
LowerMultiplierByTenth(m) == Max2(MIN_PRICE_MULTIPLIER, (m * 9) \div 10)

\* Math.max(MIN_PRICE_MULTIPLIER, pricing.currentMultiplier * 0.95)
LowerMultiplier(m) == Max2(MIN_PRICE_MULTIPLIER, (m * 19) \div 20)

registerAgentPricing(agentId, options) ==
    LET model == Opt(options, "model", "per_request")
        pricing == [basePrice |-> IF Opt(options, "basePrice", 0) # 0
                                  THEN options.basePrice ELSE modelDefaults[model],
                    model |-> model,
                    tier |-> Opt(options, "tier", "standard"),
                    dynamicPricing |-> Opt(options, "dynamicPricing", TRUE),
                    currentMultiplier |-> MultiplierOne,
                    lastUpdated |-> now]
    IN
    /\ agentPricing' = Put(agentPricing, agentId, pricing)
    /\ demandMetrics' = Put(demandMetrics, agentId,
          [requestCount |-> 0, windowStart |-> now, peakRequests |-> 0,
           averageRequests |-> <<0, 0>>])
    /\ pricingHistory' = Put(pricingHistory, agentId, << >>)
    /\ ret' = Ret("registerAgentPricing", 0, "", agentId, TRUE, pricing.basePrice)
    /\ UNCHANGED <<now, discountRules, walletVolume, priceOthers>>

\* walletVolume.get(walletAddress) || 0
VolumeOf(V, walletAddress) == IF walletAddress \in DOMAIN V THEN V[walletAddress] ELSE 0

\* Whether the loop of calculateWalletDiscount counts the rule at time t.
RuleApplies(rule, walletAddress, volume, t) ==
    /\ rule.active
    /\ ~(rule.validUntil # None /\ rule.validUntil # 0 /\ t > rule.validUntil)
    /\ CASE rule.type = "volume" -> rule.minVolume # None /\ volume >= rule.minVolume
         [] rule.type = "wallet_specific" -> walletAddress \in rule.walletAddresses
         [] rule.type = "loyalty" -> volume > 0
         [] rule.type = "promotional" -> TRUE

\* The discounts of the rules that apply, each baseAmount * (discountPercent / 100).
ApplicableDiscounts(R, V, walletAddress, baseAmount, t) ==
    {baseAmount * R[id].discountPercent :
        id \in {r \in DOMAIN R : RuleApplies(R[r], walletAddress, VolumeOf(V, walletAddress), t)}}

RECURSIVE SetSum(_)
SetSum(S) == IF S = {} THEN 0 ELSE LET x == CHOOSE y \in S : TRUE IN x + SetSum(S \ {x})

\* calculateWalletDiscount adding the discounts of the applicable rules up.
calculateWalletDiscountStacked(R, V, walletAddress, baseAmount, t) ==
    Max2(0, SetSum(ApplicableDiscounts(R, V, walletAddress, baseAmount, t)))

\* maxDiscount starts at 0 and takes Math.max with every applicable discount
calculateWalletDiscount(R, V, walletAddress, baseAmount, t) ==
    SetMax({0} \cup ApplicableDiscounts(R, V, walletAddress, baseAmount, t))

\* Math.round of the fraction n / AmountUnit: the nearest integer, a half going up
RoundAmount(n) == (2 * n + AmountUnit) \div (2 * AmountUnit)

\* The result of calculatePrice: whether the agent is known, and the price.
PriceOf(P, R, V, agentId, units, walletAddress, t) ==
    IF agentId \notin DOMAIN P THEN [known |-> FALSE, price |-> 0]
    ELSE LET pricing == P[agentId]
             tierMultiplier == tierMultipliers[pricing.tier]
             baseAmount == pricing.basePrice * units * tierMultiplier *
                              (IF pricing.dynamicPricing THEN pricing.currentMultiplier
                               ELSE MultiplierOne)
             discount == IF walletAddress # ""
                         THEN calculateWalletDiscount(R, V, walletAddress, baseAmount, t)
                         ELSE 0
             final == IF discount > 0 THEN baseAmount * 100 - discount ELSE baseAmount * 100
         IN IF tierMultiplier = 0 THEN [known |-> TRUE, price |-> 0]
            ELSE [known |-> TRUE, price |-> Max2(0, RoundAmount(final))]

calculatePrice(agentId, units, walletAddress) ==
    /\ LET r == PriceOf(agentPricing, discountRules, walletVolume, agentId, units,
                        walletAddress, now)
       IN ret' = Ret("calculatePrice", units, walletAddress, agentId, r.known, r.price)
    /\ UNCHANGED <<now, stores>>

\* demandRatio > 1.5 and demandRatio < 0.5, where demandRatio is
\* requestCount / averageRequests if averageRequests > 0, and 1 otherwise
HighDemand(metrics) ==
    /\ metrics.averageRequests[1] > 0
    /\ 2 * metrics.requestCount * Pow2(metrics.averageRequests[2]) > 3 * metrics.averageRequests[1]
LowDemand(metrics) ==
    /\ metrics.averageRequests[1] > 0
    /\ 2 * metrics.requestCount * Pow2(metrics.averageRequests[2]) < metrics.averageRequests[1]

\* updateDynamicPricing: the pricing and the history of the agent afterwards
updateDynamicPricing(pricing, history, metrics, t) ==
    IF ~pricing.dynamicPricing \/ t - pricing.lastUpdated < PRICE_UPDATE_INTERVAL_MS
    THEN [pricing |-> pricing, history |-> history]
    ELSE LET newMultiplier ==
                 IF HighDemand(metrics) THEN RaiseMultiplier(pricing.currentMultiplier)
                 ELSE IF LowDemand(metrics) THEN LowerMultiplier(pricing.currentMultiplier)
                 ELSE pricing.currentMultiplier
             pushed == Append(history,
                 [timestamp |-> t, price |-> pricing.basePrice * newMultiplier,
                  multiplier |-> newMultiplier,
                  reason |-> IF HighDemand(metrics) THEN "high_demand" ELSE "low_demand"])
         IN IF newMultiplier = pricing.currentMultiplier
            THEN [pricing |-> pricing, history |-> history]
            ELSE [pricing |-> [pricing EXCEPT !.currentMultiplier = newMultiplier,
                                              !.lastUpdated = t],
                  history |-> IF Len(pushed) > MaxPricingHistory THEN Tail(pushed)
                              ELSE pushed]

\* The demand metrics after recordRequest has rolled the window, if it is
\* over, and counted the request.
CountRequest(metrics, t) ==
    LET rolled == IF t - metrics.windowStart > DEMAND_WINDOW_MS
                  THEN [metrics EXCEPT
                          !.averageRequests =
                              Dyadic(@[1] + metrics.requestCount * Pow2(@[2]), @[2] + 1),
                          !.requestCount = 0,
                          !.windowStart = t]
                  ELSE metrics
    IN [rolled EXCEPT !.requestCount = @ + 1,
                      !.peakRequests = Max2(@, rolled.requestCount + 1)]

recordRequest(agentId, walletAddress, amount) ==
    /\ IF agentId \notin DOMAIN demandMetrics
       THEN /\ ret' = Ret("recordRequest", 0, walletAddress, agentId, FALSE, None)
            /\ UNCHANGED <<agentPricing, demandMetrics, pricingHistory, walletVolume>>
       ELSE LET metrics == CountRequest(demandMetrics[agentId], now)
                updated == updateDynamicPricing(agentPricing[agentId],
                                                pricingHistory[agentId], metrics, now)
            IN
            /\ metrics.requestCount <= MaxRequestCount
            /\ metrics.averageRequests[2] <= MaxAverageExp
            /\ VolumeOf(walletVolume, walletAddress) + amount <= MaxWalletVolume
            /\ demandMetrics' = [demandMetrics EXCEPT ![agentId] = metrics]
            /\ walletVolume' = Put(walletVolume, walletAddress,
                                   VolumeOf(walletVolume, walletAddress) + amount)
            /\ agentPricing' = [agentPricing EXCEPT ![agentId] = updated.pricing]
            /\ pricingHistory' = [pricingHistory EXCEPT ![agentId] = updated.history]
            /\ ret' = Ret("recordRequest", 0, walletAddress, agentId, TRUE, None)
    /\ UNCHANGED <<now, discountRules, priceOthers>>

updateAgentPricing(agentId, updates) ==
    /\ IF agentId \notin DOMAIN agentPricing
       THEN /\ ret' = Ret("updateAgentPricing", 0, "", agentId, FALSE, None)
            /\ UNCHANGED agentPricing
       ELSE /\ agentPricing' = [agentPricing EXCEPT ![agentId] =
                  [@ EXCEPT !.basePrice = Opt(updates, "basePrice", @),
                            !.model = Opt(updates, "model", @),
                            !.tier = Opt(updates, "tier", @),
                            !.dynamicPricing = Opt(updates, "dynamicPricing", @),
                            !.lastUpdated = now]]
            /\ ret' = Ret("updateAgentPricing", 0, "", agentId, TRUE, None)
    /\ UNCHANGED <<now, demandMetrics, pricingHistory, discountRules, walletVolume,
                   priceOthers>>

\* The rule id is `x402_discount_${Date.now()}`: the rule is filed under the
\* time of its creation, replacing a rule created in the same millisecond.
createDiscountRule(input) ==
    LET rule == [name |-> input.name,
                 type |-> input.type,
                 discountPercent |-> Min2(100, Max2(0, input.discountPercent)),
                 minVolume |-> Opt(input, "minVolume", None),
                 walletAddresses |-> Opt(input, "walletAddresses", {}),
                 validUntil |-> Opt(input, "validUntil", None),
                 active |-> TRUE]
    IN
    /\ Cardinality(DOMAIN discountRules \cup {now}) <= MaxRules
    /\ discountRules' = Put(discountRules, now, rule)
    /\ ret' = Ret("createDiscountRule", now, "", input.type, TRUE, rule.discountPercent)
    /\ UNCHANGED <<now, agentPricing, demandMetrics, pricingHistory, walletVolume,
                   priceOthers>>

deactivateDiscountRule(ruleId) ==
    /\ IF ruleId \notin DOMAIN discountRules
       THEN /\ ret' = Ret("deactivateDiscountRule", ruleId, "", "", FALSE, None)
            /\ UNCHANGED discountRules
       ELSE /\ discountRules' = [discountRules EXCEPT ![ruleId].active = FALSE]
            /\ ret' = Ret("deactivateDiscountRule", ruleId, "", "", TRUE, None)
    /\ UNCHANGED <<now, agentPricing, demandMetrics, pricingHistory, walletVolume,
                   priceOthers>>

PricingTick ==
    /\ \E t \in PricingInstants : t > now /\ now' = t
    /\ UNCHANGED <<ret, stores>>

\* The calls that register agents and drive their demand.
PricingNext ==
    \/ \E a \in PricingAgents, o \in PricingOptions : registerAgentPricing(a, o)
    \/ \E a \in PricingAgents, w \in PricingWallets, amount \in RequestAmounts :
          recordRequest(a, w, amount)
    \/ \E a \in PricingAgents, u \in PricingUpdates : updateAgentPricing(a, u)
    \/ PricingTick

DiscountTick ==
    /\ \E t \in DiscountInstants : t > now /\ now' = t
    /\ UNCHANGED <<ret, stores>>

\* The calls that quote prices for a registered agent under discount rules.
DiscountNext ==
    \/ \E a \in PricingAgents, u \in PricingUnits, w \in PricingWallets \cup {""} :
          calculatePrice(a, u, w)
    \/ \E a \in PricingAgents, w \in DiscountRequesters, amount \in RequestAmounts :
          recordRequest(a, w, amount)
    \/ \E a \in PricingAgents, u \in DiscountUpdates : updateAgentPricing(a, u)
    \/ \E input \in DiscountInputs : createDiscountRule(input)
    \/ \E id \in DiscountInstants : deactivateDiscountRule(id)
    \/ DiscountTick

RECURSIVE Times(_, _, _)
\* The multiplier m after n raises (up) or n cuts of updateDynamicPricing.
Times(m, n, up) ==
    IF n = 0 THEN m
    ELSE Times(IF up THEN RaiseMultiplier(m) ELSE LowerMultiplier(m), n - 1, up)

\* The price history after n changes one update interval apart, the last at time t.
PastChanges(n, t, up) ==
    [k \in 1..n |->
        [timestamp |-> t - PRICE_UPDATE_INTERVAL_MS * (n - k),
         price |-> 20 * Times(MultiplierOne, k, up),
         multiplier |-> Times(MultiplierOne, k, up),
         reason |-> IF up THEN "high_demand" ELSE "low_demand"]]

\* An agent registered with {basePrice: 20} whose requests (all of wallet w1,
\* amount 0) grew from window to window: one request, then six a minute apart
\* from 300001 ms on, then five at once and five a minute apart, then ten at
\* once.  Eleven raises, the last 2 ms ago; the next raise reaches the maximum.
HotAgent ==
    [pricing |-> [basePrice |-> 20, model |-> "per_request", tier |-> "standard",
                  dynamicPricing |-> TRUE,
                  currentMultiplier |-> Times(MultiplierOne, 11, TRUE),
                  lastUpdated |-> PricingStart - 2],
     metrics |-> [requestCount |-> 10, windowStart |-> PricingStart, peakRequests |-> 10,
                  averageRequests |-> <<53, 3>>],
     history |-> PastChanges(11, PricingStart - 2, TRUE)]

\* The same agent after forty requests at once and then, from 300001 ms on, a
\* request a minute: thirteen cuts, the last just now; the next cut reaches
\* the minimum.
ColdAgent ==
    [pricing |-> [basePrice |-> 20, model |-> "per_request", tier |-> "standard",
                  dynamicPricing |-> TRUE,
                  currentMultiplier |-> Times(MultiplierOne, 13, FALSE),
                  lastUpdated |-> PricingStart],
     metrics |-> [requestCount |-> 3, windowStart |-> PricingStart - 119998,
                  peakRequests |-> 40, averageRequests |-> <<19, 1>>],
     history |-> PastChanges(13, PricingStart, FALSE)]

PricingInit ==
    /\ now = PricingStart
    /\ ret = Ret("init", 0, "", "", TRUE, None)
    /\ \/ /\ agentPricing = << >>
          /\ demandMetrics = << >>
          /\ pricingHistory = << >>
          /\ walletVolume = << >>
       \/ \E past \in {HotAgent, ColdAgent} :
             /\ agentPricing = ("a1" :> past.pricing)
             /\ demandMetrics = ("a1" :> past.metrics)
             /\ pricingHistory = ("a1" :> past.history)
             /\ walletVolume = ("w1" :> 0)
    /\ discountRules = << >>
    /\ sessions = << >>
    /\ walletSessions = << >>
    /\ nextSessionId = 1
    /\ lateMarkPaid = {}
    /\ usedTrue = [id \in SessionIds |-> 0]
    /\ lapsed = {}
    /\ rateLimitBuckets = << >>
    /\ usageHistory = << >>
    /\ walletStats = << >>
    /\ globalMetrics = [totalRequests |-> 0, totalPayments |-> 0, totalExecutions |-> 0,
                        blockedWallets |-> 0, totalViolations |-> 0, requestsPerMinute |-> 0]
    /\ escrowAccounts = << >>
    /\ escrowsByDepositor = << >>
    /\ escrowsByBeneficiary = << >>
    /\ activeDisputes = << >>
    /\ escrowMetrics = [totalEscrows |-> 0, activeEscrows |-> 0, totalReleased |-> 0,
                        totalRefunded |-> 0, totalDisputed |-> 0, totalFeesCollected |-> 0]
    /\ nextEscrowId = 1
    /\ releaseTrue = << >>
    /\ networkHistory = << >>
    /\ currentNetworkState = << >>
    /\ gateRequests = << >>
    /\ facilitatorCalls = << >>
    /\ transactionStates = << >>
    /\ authSessions = << >>
    /\ activeTokens = << >>
    /\ authMetrics = [totalAuthAttempts |-> 0, successfulAuths |-> 0, failedAuths |-> 0, activeTokens |-> 0, lockedWallets |-> 0]
    /\ nextAuthToken = 1
    /\ authLock = << >>
    /\ invalidRun = << >>
    /\ fetchRun = << >>
    /\ taskQueue = << >>
    /\ orchTasks = << >>
    /\ activeTasks = {}
    /\ completedTasks = << >>
    /\ agents = << >>
    /\ agentInstances = << >>
    /\ taskHandlers = {}
    /\ resumes = 0
    /\ schedulerQueue = << >>
    /\ schedulerRet = [op |-> "none", taskId |-> NoTaskId, ok |-> FALSE]
    /\ schedulerCalls = 0

PricingSpec == PricingInit /\ [][PricingNext]_vars

DiscountInit ==
    /\ now = PricingStart
    /\ ret = Ret("init", 0, "", "", TRUE, None)
    /\ agentPricing = ("a1" :> HotAgent.pricing)
    /\ demandMetrics = ("a1" :> HotAgent.metrics)
    /\ pricingHistory = ("a1" :> HotAgent.history)
    /\ walletVolume = ("w1" :> 0)
    /\ discountRules = << >>
    /\ sessions = << >>
    /\ walletSessions = << >>
    /\ nextSessionId = 1
    /\ lateMarkPaid = {}
    /\ usedTrue = [id \in SessionIds |-> 0]
    /\ lapsed = {}
    /\ rateLimitBuckets = << >>
    /\ usageHistory = << >>
    /\ walletStats = << >>
    /\ globalMetrics = [totalRequests |-> 0, totalPayments |-> 0, totalExecutions |-> 0,
                        blockedWallets |-> 0, totalViolations |-> 0, requestsPerMinute |-> 0]
    /\ escrowAccounts = << >>
    /\ escrowsByDepositor = << >>
    /\ escrowsByBeneficiary = << >>
    /\ activeDisputes = << >>
    /\ escrowMetrics = [totalEscrows |-> 0, activeEscrows |-> 0, totalReleased |-> 0,
                        totalRefunded |-> 0, totalDisputed |-> 0, totalFeesCollected |-> 0]
    /\ nextEscrowId = 1
    /\ releaseTrue = << >>
    /\ networkHistory = << >>
    /\ currentNetworkState = << >>
    /\ gateRequests = << >>
    /\ facilitatorCalls = << >>
    /\ transactionStates = << >>
    /\ authSessions = << >>
    /\ activeTokens = << >>
    /\ authMetrics = [totalAuthAttempts |-> 0, successfulAuths |-> 0, failedAuths |-> 0, activeTokens |-> 0, lockedWallets |-> 0]
    /\ nextAuthToken = 1
    /\ authLock = << >>
    /\ invalidRun = << >>
    /\ fetchRun = << >>
    /\ taskQueue = << >>
    /\ orchTasks = << >>
    /\ activeTasks = {}
    /\ completedTasks = << >>
    /\ agents = << >>
    /\ agentInstances = << >>
    /\ taskHandlers = {}
    /\ resumes = 0
    /\ schedulerQueue = << >>
    /\ schedulerRet = [op |-> "none", taskId |-> NoTaskId, ok |-> FALSE]
    /\ schedulerCalls = 0

DiscountSpec == DiscountInit /\ [][DiscountNext]_vars

\* A step that is a calculatePrice call for a registered agent.
PriceCall ==
    /\ now' = now
    /\ ret'.op = "calculatePrice"
    /\ ret'.type \in DOMAIN agentPricing

\* C13: for an agent whose tier is free the price is 0 for all units, every
\* wallet (or none), whatever the discount rules, the demand multiplier and
\* the requests recorded so far; every calculatePrice call returns 0 for it.
C13_FreeTierIsFree ==
    /\ [](\A a \in DOMAIN agentPricing :
             agentPricing[a].tier = "free" =>
                \A u \in PricingUnits, w \in PricingWallets \cup {""} :
                   PriceOf(agentPricing, discountRules, walletVolume, a, u, w, now).price = 0)
    /\ [][(PriceCall /\ agentPricing[ret'.type].tier = "free") => ret'.val = 0]_vars

C13_Witness ==
    /\ ret.op = "calculatePrice"
    /\ ret.val = 0
    /\ ret.id = 2
    /\ ret.wallet = "w1"
    /\ agentPricing["a1"].tier = "free"
    /\ agentPricing["a1"].basePrice = 20
    /\ agentPricing["a1"].currentMultiplier = MAX_PRICE_MULTIPLIER
    /\ demandMetrics["a1"].requestCount > HotAgent.metrics.requestCount
    /\ \E r \in DOMAIN discountRules :
          discountRules[r].active /\ discountRules[r].type = "loyalty"
    /\ walletVolume["w1"] > 0

\* C14: the currentMultiplier of every agent is at least 0.5 and at most 3.0.
C14_MultiplierClamped ==
    \A a \in DOMAIN agentPricing :
       /\ agentPricing[a].currentMultiplier >= MIN_PRICE_MULTIPLIER
       /\ agentPricing[a].currentMultiplier <= MAX_PRICE_MULTIPLIER

C14_Witness ==
    /\ ret.op = "recordRequest"
    /\ "a1" \in DOMAIN agentPricing
    /\ agentPricing["a1"].currentMultiplier = MAX_PRICE_MULTIPLIER
    /\ agentPricing["a1"].lastUpdated = now
    /\ Len(pricingHistory["a1"]) = 12
    /\ pricingHistory["a1"][11].multiplier * 11 > MAX_PRICE_MULTIPLIER * 10

\* C24: in a recordRequest step for agent a the multiplier stays as it is when
\* dynamic pricing is off or fewer than 60000 ms have passed since lastUpdated;
\* otherwise it becomes min(3.0, old x 1.1) when requestCount / averageRequests
\* is above 1.5, max(0.5, old x 0.95) when it is below 0.5, and stays as it is
\* in between or when averageRequests is 0 (ratio 1).  The ratio is that of the
\* metrics as the call leaves them.
C24_MultiplierStep ==
    [][\A a \in DOMAIN agentPricing :
          (/\ now' = now
           /\ ret'.op = "recordRequest"
           /\ ret'.type = a
           /\ demandMetrics' # demandMetrics) =>
              LET old == agentPricing[a].currentMultiplier
                  count == demandMetrics'[a].requestCount
                  n == demandMetrics'[a].averageRequests[1]
                  scale == Pow2(demandMetrics'[a].averageRequests[2])
                  raised == IF old * 11 >= 300000 THEN 30000 ELSE (old * 11) \div 10
                  cut == IF old * 19 <= 100000 THEN 5000 ELSE (old * 19) \div 20
              IN  agentPricing'[a].currentMultiplier =
                      IF ~agentPricing[a].dynamicPricing
                            \/ now - agentPricing[a].lastUpdated < 60000
                      THEN old
                      ELSE IF n > 0 /\ 2 * count * scale > 3 * n THEN raised
                      ELSE IF n > 0 /\ 2 * count * scale < n THEN cut
                      ELSE old]_vars

\* A minute after the thirteenth cut a request at low demand has brought the
\* multiplier down to the minimum.
C24_Witness ==
    /\ ret.op = "recordRequest"
    /\ "a1" \in DOMAIN agentPricing
    /\ agentPricing["a1"].dynamicPricing
    /\ agentPricing["a1"].currentMultiplier = 5000
    /\ agentPricing["a1"].lastUpdated = now
    /\ Len(pricingHistory["a1"]) = 14
    /\ pricingHistory["a1"][14].reason = "low_demand"
    /\ pricingHistory["a1"][13].multiplier > 5000

\* The rules the claim counts for a wallet at the current time: active, not
\* past validUntil, and applicable by type.
CountedRules(walletAddress) ==
    {r \in DOMAIN discountRules :
        /\ discountRules[r].active
        /\ (discountRules[r].validUntil = None \/ now <= discountRules[r].validUntil)
        /\ \/ /\ discountRules[r].type = "volume"
              /\ discountRules[r].minVolume # None
              /\ VolumeOf(walletVolume, walletAddress) >= discountRules[r].minVolume
           \/ /\ discountRules[r].type = "loyalty"
              /\ VolumeOf(walletVolume, walletAddress) > 0
           \/ /\ discountRules[r].type = "wallet_specific"
              /\ walletAddress \in discountRules[r].walletAddresses
           \/ discountRules[r].type = "promotional"}

\* The largest discountPercent among the counted rules, 0 if there is none.
LargestPercent(walletAddress) ==
    SetMax({0} \cup {discountRules[r].discountPercent : r \in CountedRules(walletAddress)})

\* The amount before discount of units of the agent, over AmountUnit / 100.
UndiscountedAmount(agentId, units) ==
    agentPricing[agentId].basePrice * units * tierMultipliers[agentPricing[agentId].tier] *
       (IF agentPricing[agentId].dynamicPricing THEN agentPricing[agentId].currentMultiplier
        ELSE MultiplierOne)

CONGESTION_HISTORY_SIZE == 60
\* congestionThresholds: maxTps and blockTimeMs of low, moderate and high
\* (those of severe are Infinity)
LowMaxTps == 1500
LowBlockTimeMs == 400
ModerateMaxTps == 3000
ModerateBlockTimeMs == 500
HighMaxTps == 4000
HighBlockTimeMs == 650

MaxNetworkSamples == 2
\* The measurements reported: on and just past every threshold, below the
\* lowest and above the highest.
TpsValues == {1000, 1500, 1501, 3000, 3001, 4000, 4001, 5000}
BlockTimes == {300, 400, 401, 500, 501, 650, 651, 800}
NetworkSlots == {1}

\* determineCongestionLevel looking at the transactions per second only.
determineCongestionLevelByTps(tps, blockTimeMs) ==
    IF tps <= LowMaxTps THEN "low"
    ELSE IF tps <= ModerateMaxTps THEN "moderate"
    ELSE IF tps <= HighMaxTps THEN "high"
    ELSE "severe"

determineCongestionLevel(tps, blockTimeMs) ==
    IF tps <= LowMaxTps /\ blockTimeMs <= LowBlockTimeMs THEN "low"
    ELSE IF tps <= ModerateMaxTps /\ blockTimeMs <= ModerateBlockTimeMs THEN "moderate"
    ELSE IF tps <= HighMaxTps /\ blockTimeMs <= HighBlockTimeMs THEN "high"
    ELSE "severe"

\* The trimming of the history, dropping the newest sample.
TrimHistoryNewest(history) ==
    IF Len(history) > CONGESTION_HISTORY_SIZE THEN SubSeq(history, 1, Len(history) - 1)
    ELSE history

\* if (networkHistory.length > CONGESTION_HISTORY_SIZE) networkHistory.shift()
TrimHistory(history) ==
    IF Len(history) > CONGESTION_HISTORY_SIZE THEN Tail(history) ELSE history

updateNetworkState(slot, blockHeight, transactionsPerSecond, avgBlockTime) ==
    LET state == [slot |-> slot, blockHeight |-> blockHeight,
                  transactionsPerSecond |-> transactionsPerSecond,
                  avgBlockTime |-> avgBlockTime,
                  congestionLevel |->
                      determineCongestionLevel(transactionsPerSecond, avgBlockTime),
                  timestamp |-> now]
        pushed == Append(networkHistory, state)
    IN
    /\ currentNetworkState' = <<state>>
    /\ networkHistory' = TrimHistory(pushed)
    /\ ret' = Ret("updateNetworkState", avgBlockTime, "", state.congestionLevel, TRUE,
                  transactionsPerSecond)
    /\ UNCHANGED <<now, netOthers>>

clearNetworkHistory ==
    /\ networkHistory' = << >>
    /\ currentNetworkState' = << >>
    /\ ret' = Ret("clearNetworkHistory", 0, "", "", TRUE, None)
    /\ UNCHANGED <<now, netOthers>>

CongestionNext ==
    \/ \E slot \in NetworkSlots, tps \in TpsValues, blockTimeMs \in BlockTimes :
          /\ Len(networkHistory) < MaxNetworkSamples
          /\ updateNetworkState(slot, slot, tps, blockTimeMs)
    \/ clearNetworkHistory

CongestionInit ==
    /\ now = 0
    /\ ret = Ret("init", 0, "", "", TRUE, None)
    /\ networkHistory = << >>
    /\ currentNetworkState = << >>
    /\ agentPricing = << >>
    /\ demandMetrics = << >>
    /\ pricingHistory = << >>
    /\ walletVolume = << >>
    /\ discountRules = << >>
    /\ sessions = << >>
    /\ walletSessions = << >>
    /\ nextSessionId = 1
    /\ lateMarkPaid = {}
    /\ usedTrue = [id \in SessionIds |-> 0]
    /\ lapsed = {}
    /\ rateLimitBuckets = << >>
    /\ usageHistory = << >>
    /\ walletStats = << >>
    /\ globalMetrics = [totalRequests |-> 0, totalPayments |-> 0, totalExecutions |-> 0,
                        blockedWallets |-> 0, totalViolations |-> 0, requestsPerMinute |-> 0]
    /\ escrowAccounts = << >>
    /\ escrowsByDepositor = << >>
    /\ escrowsByBeneficiary = << >>
    /\ activeDisputes = << >>
    /\ escrowMetrics = [totalEscrows |-> 0, activeEscrows |-> 0, totalReleased |-> 0,
                        totalRefunded |-> 0, totalDisputed |-> 0, totalFeesCollected |-> 0]
    /\ nextEscrowId = 1
    /\ releaseTrue = << >>
    /\ gateRequests = << >>
    /\ facilitatorCalls = << >>
    /\ transactionStates = << >>
    /\ authSessions = << >>
    /\ activeTokens = << >>
    /\ authMetrics = [totalAuthAttempts |-> 0, successfulAuths |-> 0, failedAuths |-> 0, activeTokens |-> 0, lockedWallets |-> 0]
    /\ nextAuthToken = 1
    /\ authLock = << >>
    /\ invalidRun = << >>
    /\ fetchRun = << >>
    /\ taskQueue = << >>
    /\ orchTasks = << >>
    /\ activeTasks = {}
    /\ completedTasks = << >>
    /\ agents = << >>
    /\ agentInstances = << >>
    /\ taskHandlers = {}
    /\ resumes = 0
    /\ schedulerQueue = << >>
    /\ schedulerRet = [op |-> "none", taskId |-> NoTaskId, ok |-> FALSE]
    /\ schedulerCalls = 0

CongestionSpec == CongestionInit /\ [][CongestionNext]_vars

CongestionLevels == <<"low", "moderate", "high", "severe">>
\* The first tier (1 low .. 4 severe) whose limit the measurement meets.
TpsTier(tps) ==
    IF tps <= 1500 THEN 1 ELSE IF tps <= 3000 THEN 2 ELSE IF tps <= 4000 THEN 3 ELSE 4
BlockTimeTier(blockTimeMs) ==
    IF blockTimeMs <= 400 THEN 1 ELSE IF blockTimeMs <= 500 THEN 2
    ELSE IF blockTimeMs <= 650 THEN 3 ELSE 4

\* C16: the congestion level of a sample is the worse of the tier of its tps
\* (low <= 1500, moderate <= 3000, high <= 4000, else severe) and the tier of
\* its block time (low <= 400, moderate <= 500, high <= 650, else severe);
\* (1000, 300) is low and (5000, 800) is severe.
C16_CongestionLevel ==
    /\ determineCongestionLevel(1000, 300) = "low"
    /\ determineCongestionLevel(5000, 800) = "severe"
    /\ \A i \in 1..Len(networkHistory) :
          networkHistory[i].congestionLevel =
             CongestionLevels[Max2(TpsTier(networkHistory[i].transactionsPerSecond),
                                   BlockTimeTier(networkHistory[i].avgBlockTime))]
    /\ ret.op = "updateNetworkState" =>
          ret.type = CongestionLevels[Max2(TpsTier(ret.val), BlockTimeTier(ret.id))]

C16_Witness ==
    /\ ret.op = "updateNetworkState"
    /\ ret.val = 1000 /\ ret.id = 800 /\ ret.type = "severe"
    /\ Len(networkHistory) = 2
    /\ networkHistory[1].transactionsPerSecond = 4000
    /\ networkHistory[1].avgBlockTime = 300
    /\ networkHistory[1].congestionLevel = "high"

\* The history near its capacity.  Samples are told apart by their slot: slot 1
\* is the sample reported all along, slot 2 a marked one, of which the history
\* holds at most MaxMarkedSamples.
MaxMarkedSamples == 2
HistorySlots == {1, 2}
MarkedSamples(history) == {i \in 1..Len(history) : history[i].slot = 2}
PlainSample ==
    [slot |-> 1, blockHeight |-> 1, transactionsPerSecond |-> 1000, avgBlockTime |-> 300,
     congestionLevel |-> "low", timestamp |-> 0]

HistoryNext ==
    \/ \E slot \in HistorySlots :
          /\ slot = 2 => Cardinality(MarkedSamples(networkHistory)) < MaxMarkedSamples
          /\ updateNetworkState(slot, slot, 1000, 300)
    \/ clearNetworkHistory

\* The state after 59 calls updateNetworkState(1, 1, 1000, 300) at time 0.
HistoryInit ==
    /\ now = 0
    /\ ret = Ret("updateNetworkState", 300, "", "low", TRUE, 1000)
    /\ networkHistory = [i \in 1..(CONGESTION_HISTORY_SIZE - 1) |-> PlainSample]
    /\ currentNetworkState = <<PlainSample>>
    /\ agentPricing = << >>
    /\ demandMetrics = << >>
    /\ pricingHistory = << >>
    /\ walletVolume = << >>
    /\ discountRules = << >>
    /\ sessions = << >>
    /\ walletSessions = << >>
    /\ nextSessionId = 1
    /\ lateMarkPaid = {}
    /\ usedTrue = [id \in SessionIds |-> 0]
    /\ lapsed = {}
    /\ rateLimitBuckets = << >>
    /\ usageHistory = << >>
    /\ walletStats = << >>
    /\ globalMetrics = [totalRequests |-> 0, totalPayments |-> 0, totalExecutions |-> 0,
                        blockedWallets |-> 0, totalViolations |-> 0, requestsPerMinute |-> 0]
    /\ escrowAccounts = << >>
    /\ escrowsByDepositor = << >>
    /\ escrowsByBeneficiary = << >>
    /\ activeDisputes = << >>
    /\ escrowMetrics = [totalEscrows |-> 0, activeEscrows |-> 0, totalReleased |-> 0,
                        totalRefunded |-> 0, totalDisputed |-> 0, totalFeesCollected |-> 0]
    /\ nextEscrowId = 1
    /\ releaseTrue = << >>
    /\ gateRequests = << >>
    /\ facilitatorCalls = << >>
    /\ transactionStates = << >>
    /\ authSessions = << >>
    /\ activeTokens = << >>
    /\ authMetrics = [totalAuthAttempts |-> 0, successfulAuths |-> 0, failedAuths |-> 0, activeTokens |-> 0, lockedWallets |-> 0]
    /\ nextAuthToken = 1
    /\ authLock = << >>
    /\ invalidRun = << >>
    /\ fetchRun = << >>
    /\ taskQueue = << >>
    /\ orchTasks = << >>
    /\ activeTasks = {}
    /\ completedTasks = << >>
    /\ agents = << >>
    /\ agentInstances = << >>
    /\ taskHandlers = {}
    /\ resumes = 0
    /\ schedulerQueue = << >>
    /\ schedulerRet = [op |-> "none", taskId |-> NoTaskId, ok |-> FALSE]
    /\ schedulerCalls = 0

HistorySpec == HistoryInit /\ [][HistoryNext]_vars

\* The last n elements of a sequence.
LastOf(history, n) ==
    IF Len(history) <= n THEN history ELSE SubSeq(history, Len(history) - n + 1, Len(history))

\* C25: networkHistory never holds more than 60 samples; currentNetworkState is
\* null exactly when the history is empty and is otherwise its last sample;
\* updateNetworkState leaves the last 60 of the old samples followed by the new
\* one, in that order, and clearNetworkHistory leaves nothing.
C25_RollingHistory ==
    /\ [](/\ Len(networkHistory) <= 60
          /\ currentNetworkState = << >> <=> networkHistory = << >>
          /\ networkHistory # << >> =>
                currentNetworkState = <<networkHistory[Len(networkHistory)]>>)
    /\ [][/\ ret'.op = "updateNetworkState" =>
                /\ currentNetworkState' # << >>
                /\ networkHistory' =
                      LastOf(Append(networkHistory, currentNetworkState'[1]), 60)
          /\ ret'.op = "clearNetworkHistory" => networkHistory' = << >>]_vars

\* The history is full, and its oldest samples have been dropped so that a
\* marked sample has moved from the end to the middle.
C25_Witness ==
    /\ Len(networkHistory) = 60
    /\ networkHistory[30].slot = 2
    /\ networkHistory[60].slot = 1
    /\ currentNetworkState = <<networkHistory[60]>>

(***************************************************************************)
(* x402 payment gate (src/server/services/x402.ts)                         *)
(* x402Middleware is an async function: it runs to its await on the        *)
(* facilitator's /verify answer, and resumes when the answer arrives.      *)
(* Requests overlap at that await.  The route handler behind next() is     *)
(* any code that may call req.settlePayment and then responds.             *)
(***************************************************************************)
X402_VERSION == 1
PAYMENT_RECEIVER == "8ShrffvEuv9Uy4hLECKUGRFo6vN1qhY3Lkr4PDz2U92q"
USDC_MINT == "EPjFWdd5AufqSSqeM2qN1xzybapC8G4wEGGkZwyTDt1v"
SOLANA_NETWORK == "solana"

MaxGateRequests == 2
MaxSettleCalls == 1

\* One entry of MODEXO_AGENTS; priceUSD (0.10) is held in cents.
MODEXO_AGENTS ==
    [a \in {"x402-portfolio"} |->
        [id |-> a, priceUSD |-> 10, resource |-> "/api/x402/portfolio"]]
GateAgentIds == {"x402-portfolio", "x402-unknown"}

\* The X-Payment header: absent, empty, base64 of {"x":1}, of {}, of null,
\* of 123, of hello, and the JSON text {} sent without encoding.
NoHeader == "undefined"
PaymentHeaders ==
    {NoHeader, "", "eyJ4IjoxfQ==", "e30=", "bnVsbA==", "MTIz", "aGVsbG8=", "{}"}

\* What the facilitator answers to a fetch: the fetch throws, or a status and a body.
Response(status, text) == [threw |-> FALSE, status |-> status, text |-> text]
FetchThrows == [threw |-> TRUE, status |-> 0, text |-> ""]
VerifyResponses ==
    {FetchThrows,
     Response(200, "{\"valid\":true}"), Response(200, "{}"),
     Response(200, "{\"isValid\":false}"),
     Response(200, "{\"valid\":false}"),
     Response(200, "{\"verified\":false,\"reason\":\"expired\"}"),
     Response(200, "null"), Response(200, "<html>"),
     Response(500, "{\"error\":\"boom\"}"), Response(500, "{}"),
     Response(402, "{\"valid\":true}")}
SettleResponses ==
    {FetchThrows, Response(200, "{\"success\":true}"), Response(500, "{}"),
     Response(200, "<html>")}

usdToMicroUSDCAsMilli(usd) == ToString(usd * 10)
\* Math.round(usd * 1_000_000).toString(), with usd in cents.
usdToMicroUSDC(usd) == ToString(usd * 10000)

\* Buffer.from(header, "base64").toString(): characters outside the base64
\* alphabet are skipped, so the unencoded text {} decodes to nothing.
BufferFromBase64(header) ==
    CASE header = "eyJ4IjoxfQ==" -> "{\"x\":1}"
      [] header = "e30=" -> "{}"
      [] header = "bnVsbA==" -> "null"
      [] header = "MTIz" -> "123"
      [] header = "aGVsbG8=" -> "hello"
      [] OTHER -> ""

\* JSON.parse: a value (an object with its fields, null, or a scalar) or a SyntaxError.
JsonObject(fields) == [threw |-> FALSE, kind |-> "object", fields |-> fields]
JsonNull == [threw |-> FALSE, kind |-> "null", fields |-> << >>]
JsonScalar == [threw |-> FALSE, kind |-> "scalar", fields |-> << >>]
SyntaxError == [threw |-> TRUE, kind |-> "", fields |-> << >>]
JSONparse(text) ==
    CASE text = "{}" -> JsonObject(<< >>)
      [] text = "{\"x\":1}" -> JsonObject([x |-> 1])
      [] text = "null" -> JsonNull
      [] text = "123" -> JsonScalar
      [] text = "{\"valid\":true}" -> JsonObject([valid |-> TRUE])
      [] text = "{\"valid\":false}" -> JsonObject([valid |-> FALSE])
      [] text = "{\"isValid\":false}" -> JsonObject([isValid |-> FALSE])
      [] text = "{\"verified\":false,\"reason\":\"expired\"}" ->
             JsonObject([verified |-> FALSE, reason |-> "expired"])
      [] text = "{\"error\":\"boom\"}" -> JsonObject([error |-> "boom"])
      [] text = "{\"success\":true}" -> JsonObject([success |-> TRUE])
      [] OTHER -> SyntaxError

\* value.field === false, and the first truthy one of value's fields (or dflt).
IsFalse(value, field) == field \in DOMAIN value.fields /\ value.fields[field] = FALSE
FirstOf(value, fieldSeq, dflt) ==
    LET set == {i \in 1..Len(fieldSeq) :
                   fieldSeq[i] \in DOMAIN value.fields /\ value.fields[fieldSeq[i]] # ""}
    IN  IF set = {} THEN dflt
        ELSE value.fields[fieldSeq[CHOOSE i \in set : \A j \in set : i <= j]]

getAgentById(agentId) ==
    IF agentId \in DOMAIN MODEXO_AGENTS THEN <<MODEXO_AGENTS[agentId]>> ELSE << >>

\* The accepts list of create402Response (the fields the gate's clients read).
create402Accepts(agent) ==
    << [scheme |-> "exact", network |-> SOLANA_NETWORK,
        maxAmountRequired |-> usdToMicroUSDC(agent.priceUSD),
        resource |-> agent.resource, payTo |-> PAYMENT_RECEIVER,
        maxTimeoutSeconds |-> 60, asset |-> USDC_MINT] >>
GateBody(version, error, accepts) ==
    [x402Version |-> version, error |-> error, accepts |-> accepts]
create402Response(agent) == GateBody(X402_VERSION, NoSig, create402Accepts(agent))

\* The try block of x402Middleware: JSON.parse of the decoded header, then
\* Object.keys of the payload, which throws on null.
DecodePaymentHeader(header) ==
    LET text == BufferFromBase64(header)
        value == JSONparse(text)
    IN  IF value.threw \/ value.kind = "null"
        THEN [threw |-> TRUE, paymentPayload |-> ""]
        ELSE [threw |-> FALSE, paymentPayload |-> text]

ResponseOk(response) == response.status >= 200 /\ response.status <= 299
Verification(valid, error) == [threw |-> FALSE, valid |-> valid, error |-> error]
VerificationThrown == [threw |-> TRUE, valid |-> FALSE, error |-> ""]
\* The try block of verifyPaymentWithFacilitator from the fetch on; reading a
\* field of null throws a TypeError.
VerifyTry(response) ==
    IF response.threw THEN VerificationThrown
    ELSE LET result == JSONparse(response.text) IN
        IF result.threw
        THEN Verification(FALSE, "Invalid facilitator response: " \o response.text)
        ELSE IF result.kind = "null" THEN VerificationThrown
        ELSE IF ~ResponseOk(response)
        THEN Verification(FALSE, FirstOf(result, <<"error", "message">>,
                                         "HTTP " \o ToString(response.status)))
        ELSE IF IsFalse(result, "valid") \/ IsFalse(result, "verified")
        THEN Verification(FALSE, FirstOf(result, <<"reason", "invalidReason", "message">>,
                                         "Payment verification failed"))
        ELSE Verification(TRUE, NoSig)
\* verifyPaymentWithFacilitator without its catch.
verifyPaymentUncaught(response) == VerifyTry(response)
verifyPaymentWithFacilitator(response) ==
    IF VerifyTry(response).threw
    THEN Verification(FALSE, "Facilitator error: fetch failed")
    ELSE VerifyTry(response)

settlePaymentWithFacilitator(response) ==
    IF response.threw THEN [success |-> FALSE, error |-> "Settlement error: fetch failed"]
    ELSE LET result == JSONparse(response.text) IN
        IF result.threw
        THEN [success |-> FALSE, error |-> "Invalid facilitator response: " \o response.text]
        ELSE IF result.kind = "null"
        THEN IF ResponseOk(response) THEN [success |-> TRUE, error |-> NoSig]
             ELSE [success |-> FALSE, error |-> "Settlement error: fetch failed"]
        ELSE IF ~ResponseOk(response)
        THEN [success |-> FALSE,
              error |-> FirstOf(result, <<"error", "message">>,
                                "HTTP " \o ToString(response.status))]
        ELSE [success |-> TRUE, error |-> NoSig]

\* if (!verification.valid) in x402Middleware.
VerificationOpensAlways(verification) == TRUE
VerificationOpens(verification) == verification.valid

\* A request as x402Middleware sees it, with what has been done for it:
\* pc is "verify" (awaiting /verify), "handler" (next() was called), "settle"
\* (awaiting /settle), "responded", or "rejected" (the middleware's promise
\* rejected); status 0 is no response yet.
GateRequest(agentId, header) ==
    [agentId |-> agentId, header |-> header, paymentPayload |-> "", pc |-> "verify",
     status |-> 0, body |-> GateBody(None, NoSig, << >>), nextCalled |-> FALSE,
     settlePayment |-> FALSE, exception |-> FALSE, settleCalls |-> 0,
     settlement |-> ""]
Respond(request, status, body) ==
    [request EXCEPT !.pc = "responded", !.status = status, !.body = body]
FacilitatorCall(endpoint, r, request, agent) ==
    [endpoint |-> endpoint, request |-> r, paymentPayload |-> request.paymentPayload,
     maxAmountRequired |-> usdToMicroUSDC(agent.priceUSD), response |-> << >>]
\* The oldest call of request r to the endpoint that has no answer yet.
Outstanding(r, endpoint) ==
    {i \in 1..Len(facilitatorCalls) :
        /\ facilitatorCalls[i].request = r
        /\ facilitatorCalls[i].endpoint = endpoint
        /\ facilitatorCalls[i].response = << >>}

\* x402Middleware(agentId)(req, res, next), up to its first await.
x402Middleware(agentId, header) ==
    /\ Len(gateRequests) < MaxGateRequests
    /\ LET r == Len(gateRequests) + 1
           request == GateRequest(agentId, header)
           found == getAgentById(agentId)
           decoded == DecodePaymentHeader(header)
       IN  IF found = << >>
           THEN /\ gateRequests' = Append(gateRequests,
                        Respond(request, 404, GateBody(None, "Agent not found", << >>)))
                /\ UNCHANGED facilitatorCalls
           ELSE IF header = NoHeader \/ header = ""
           THEN /\ gateRequests' = Append(gateRequests,
                        Respond(request, 402, create402Response(found[1])))
                /\ UNCHANGED facilitatorCalls
           ELSE IF decoded.threw
           THEN /\ gateRequests' = Append(gateRequests,
                        Respond(request, 402,
                                GateBody(X402_VERSION, "Invalid payment header format",
                                         create402Accepts(found[1]))))
                /\ UNCHANGED facilitatorCalls
           ELSE LET sent == [request EXCEPT !.paymentPayload = decoded.paymentPayload] IN
                /\ gateRequests' = Append(gateRequests, sent)
                /\ facilitatorCalls' =
                       Append(facilitatorCalls, FacilitatorCall("/verify", r, sent, found[1]))
    /\ UNCHANGED <<now, ret, gateOthers>>

\* x402Middleware from the answer of /verify to its end.
verifyReturns(r, response) ==
    /\ r \in DOMAIN gateRequests
    /\ gateRequests[r].pc = "verify"
    /\ Outstanding(r, "/verify") # {}
    /\ LET i == CHOOSE i \in Outstanding(r, "/verify") : TRUE
           request == gateRequests[r]
           agent == getAgentById(request.agentId)[1]
           verification == verifyPaymentWithFacilitator(response)
       IN  /\ facilitatorCalls' = [facilitatorCalls EXCEPT ![i].response = <<response>>]
           /\ gateRequests' = [gateRequests EXCEPT ![r] =
                  IF verification.threw
                  THEN [request EXCEPT !.pc = "rejected", !.exception = TRUE]
                  ELSE IF ~VerificationOpens(verification)
                  THEN Respond(request, 402,
                               GateBody(X402_VERSION, verification.error,
                                        create402Accepts(agent)))
                  ELSE [request EXCEPT !.pc = "handler", !.settlePayment = TRUE,
                                       !.nextCalled = TRUE]]
    /\ UNCHANGED <<now, ret, gateOthers>>

\* The route handler calls req.settlePayment(), where the middleware set it.
settlePayment(r) ==
    /\ r \in DOMAIN gateRequests
    /\ gateRequests[r].pc = "handler"
    /\ gateRequests[r].settlePayment
    /\ gateRequests[r].settleCalls < MaxSettleCalls
    /\ LET request == gateRequests[r]
           agent == getAgentById(request.agentId)[1]
       IN  /\ gateRequests' = [gateRequests EXCEPT ![r] =
                  [request EXCEPT !.pc = "settle", !.settleCalls = @ + 1]]
           /\ facilitatorCalls' =
                  Append(facilitatorCalls, FacilitatorCall("/settle", r, request, agent))
    /\ UNCHANGED <<now, ret, gateOthers>>

\* req.settlePayment() resolves with the answer of /settle.
settleReturns(r, response) ==
    /\ r \in DOMAIN gateRequests
    /\ gateRequests[r].pc = "settle"
    /\ Outstanding(r, "/settle") # {}
    /\ LET i == CHOOSE i \in Outstanding(r, "/settle") : TRUE
           settled == settlePaymentWithFacilitator(response)
       IN  /\ facilitatorCalls' = [facilitatorCalls EXCEPT ![i].response = <<response>>]
           /\ gateRequests' = [gateRequests EXCEPT ![r] =
                  [@ EXCEPT !.pc = "handler",
                            !.settlement = IF settled.success THEN "success" ELSE "failed"]]
    /\ UNCHANGED <<now, ret, gateOthers>>

\* The route handler sends its response.
handlerResponds(r) ==
    /\ r \in DOMAIN gateRequests
    /\ gateRequests[r].pc = "handler"
    /\ gateRequests[r].nextCalled
    /\ gateRequests' = [gateRequests EXCEPT ![r] = [@ EXCEPT !.pc = "responded", !.status = 200]]
    /\ UNCHANGED <<now, ret, gateOthers, facilitatorCalls>>

GateRequestIds == 1..MaxGateRequests
GateNext ==
    \/ \E agentId \in GateAgentIds, header \in PaymentHeaders : x402Middleware(agentId, header)
    \/ \E r \in GateRequestIds, response \in VerifyResponses : verifyReturns(r, response)
    \/ \E r \in GateRequestIds : settlePayment(r)
    \/ \E r \in GateRequestIds, response \in SettleResponses : settleReturns(r, response)
    \/ \E r \in GateRequestIds : handlerResponds(r)

GateInit ==
    /\ now = 0
    /\ ret = Ret("init", 0, "", "", TRUE, None)
    /\ gateRequests = << >>
    /\ facilitatorCalls = << >>
    /\ agentPricing = << >>
    /\ demandMetrics = << >>
    /\ pricingHistory = << >>
    /\ walletVolume = << >>
    /\ discountRules = << >>
    /\ sessions = << >>
    /\ walletSessions = << >>
    /\ nextSessionId = 1
    /\ lateMarkPaid = {}
    /\ usedTrue = [id \in SessionIds |-> 0]
    /\ lapsed = {}
    /\ rateLimitBuckets = << >>
    /\ usageHistory = << >>
    /\ walletStats = << >>
    /\ globalMetrics = [totalRequests |-> 0, totalPayments |-> 0, totalExecutions |-> 0,
                        blockedWallets |-> 0, totalViolations |-> 0, requestsPerMinute |-> 0]
    /\ escrowAccounts = << >>
    /\ escrowsByDepositor = << >>
    /\ escrowsByBeneficiary = << >>
    /\ activeDisputes = << >>
    /\ escrowMetrics = [totalEscrows |-> 0, activeEscrows |-> 0, totalReleased |-> 0,
                        totalRefunded |-> 0, totalDisputed |-> 0, totalFeesCollected |-> 0]
    /\ nextEscrowId = 1
    /\ releaseTrue = << >>
    /\ networkHistory = << >>
    /\ currentNetworkState = << >>
    /\ transactionStates = << >>
    /\ authSessions = << >>
    /\ activeTokens = << >>
    /\ authMetrics = [totalAuthAttempts |-> 0, successfulAuths |-> 0, failedAuths |-> 0, activeTokens |-> 0, lockedWallets |-> 0]
    /\ nextAuthToken = 1
    /\ authLock = << >>
    /\ invalidRun = << >>
    /\ fetchRun = << >>
    /\ taskQueue = << >>
    /\ orchTasks = << >>
    /\ activeTasks = {}
    /\ completedTasks = << >>
    /\ agents = << >>
    /\ agentInstances = << >>
    /\ taskHandlers = {}
    /\ resumes = 0
    /\ schedulerQueue = << >>
    /\ schedulerRet = [op |-> "none", taskId |-> NoTaskId, ok |-> FALSE]
    /\ schedulerCalls = 0

GateSpec == GateInit /\ [][GateNext]_vars

\* The calls made to the facilitator for request r.
CallsOf(r) == {i \in 1..Len(facilitatorCalls) : facilitatorCalls[i].request = r}
KnownAgent(request) == request.agentId = "x402-portfolio"

\* C17: a request for a known agent that carries no X-Payment header is answered
\* with 402 and the challenge {x402Version, accepts}; its one accepts entry
\* states the price in micro-USDC (0.10 USD = "100000"), the asset and the payTo
\* recipient; next() is not called and no call goes to the facilitator.
C17_ChallengeWithoutHeader ==
    \A r \in DOMAIN gateRequests :
        LET request == gateRequests[r] IN
        (KnownAgent(request) /\ request.header = NoHeader) =>
            /\ request.status = 402
            /\ request.body.x402Version = 1
            /\ request.body.error = NoSig
            /\ Len(request.body.accepts) = 1
            /\ request.body.accepts[1].maxAmountRequired = "100000"
            /\ request.body.accepts[1].asset = "EPjFWdd5AufqSSqeM2qN1xzybapC8G4wEGGkZwyTDt1v"
            /\ request.body.accepts[1].payTo = "8ShrffvEuv9Uy4hLECKUGRFo6vN1qhY3Lkr4PDz2U92q"
            /\ ~request.nextCalled
            /\ CallsOf(r) = {}

\* A request without header has been challenged while another request is at its handler.
C17_Witness ==
    /\ \E r \in DOMAIN gateRequests :
          /\ KnownAgent(gateRequests[r])
          /\ gateRequests[r].header = NoHeader
          /\ gateRequests[r].status = 402
    /\ \E r \in DOMAIN gateRequests : gateRequests[r].nextCalled

\* The facilitator's answer to /verify is a failure when the fetch throws, the
\* status is not 2xx, the body is not JSON, or it reports valid or verified false.
VerifyFailed(response) ==
    \/ response.threw
    \/ response.status < 200
    \/ response.status > 299
    \/ response.text \notin {"{}", "null", "{\"valid\":true}", "{\"valid\":false}",
                             "{\"isValid\":false}",
                             "{\"verified\":false,\"reason\":\"expired\"}",
                             "{\"error\":\"boom\"}"}
    \/ response.text \in {"{\"valid\":false}", "{\"verified\":false,\"reason\":\"expired\"}"}
\* Call i is a /verify call for request r and its payload that was answered without failure.
VerifiedAt(i, r) ==
    /\ facilitatorCalls[i].endpoint = "/verify"
    /\ facilitatorCalls[i].request = r
    /\ facilitatorCalls[i].paymentPayload = gateRequests[r].paymentPayload
    /\ facilitatorCalls[i].response # << >>
    /\ ~VerifyFailed(facilitatorCalls[i].response[1])

\* C18: next() has been called for a request only if a /verify call for its
\* payload was answered as valid, and every /settle call comes after such a
\* /verify call of the same request, and after next().
C18_VerifyHandlerSettle ==
    /\ \A r \in DOMAIN gateRequests :
          gateRequests[r].nextCalled => \E i \in CallsOf(r) : VerifiedAt(i, r)
    /\ \A j \in 1..Len(facilitatorCalls) :
          facilitatorCalls[j].endpoint = "/settle" =>
              /\ facilitatorCalls[j].request \in DOMAIN gateRequests
              /\ gateRequests[facilitatorCalls[j].request].nextCalled
              /\ facilitatorCalls[j].paymentPayload =
                     gateRequests[facilitatorCalls[j].request].paymentPayload
              /\ \E i \in 1..(j - 1) : VerifiedAt(i, facilitatorCalls[j].request)

\* A request was verified, handled and settled while the other request's
\* /verify call failed.
C18_Witness ==
    /\ \E j \in 1..Len(facilitatorCalls) :
          /\ facilitatorCalls[j].endpoint = "/settle"
          /\ facilitatorCalls[j].response # << >>
    /\ \E i \in 1..Len(facilitatorCalls) :
          /\ facilitatorCalls[i].endpoint = "/verify"
          /\ facilitatorCalls[i].response # << >>
          /\ VerifyFailed(facilitatorCalls[i].response[1])

\* The header does not decode to JSON text.
NotBase64Json(header) ==
    BufferFromBase64(header) \notin {"{}", "{\"x\":1}", "null", "123"}
\* The payment of request r failed at the gate.
GateFailure(r) ==
    /\ KnownAgent(gateRequests[r])
    /\ gateRequests[r].header \notin {NoHeader, ""}
    /\ \/ NotBase64Json(gateRequests[r].header)
       \/ \E i \in CallsOf(r) :
             /\ facilitatorCalls[i].endpoint = "/verify"
             /\ facilitatorCalls[i].response # << >>
             /\ VerifyFailed(facilitatorCalls[i].response[1])

\* C19: a request whose header is not base64-encoded JSON, or whose /verify call
\* threw, came back non-2xx or non-JSON, or reported valid=false or
\* verified=false, is answered with 402, an error string and the accepts list;
\* next() is not called for it, and no request ends in an escaped exception.
C19_FailureDenies ==
    \A r \in DOMAIN gateRequests :
        /\ ~gateRequests[r].exception
        /\ gateRequests[r].pc # "rejected"
        /\ GateFailure(r) =>
              /\ gateRequests[r].status = 402
              /\ gateRequests[r].body.error \notin {NoSig, ""}
              /\ Len(gateRequests[r].body.accepts) = 1
              /\ gateRequests[r].body.accepts[1].maxAmountRequired = "100000"
              /\ gateRequests[r].body.accepts[1].payTo = "8ShrffvEuv9Uy4hLECKUGRFo6vN1qhY3Lkr4PDz2U92q"
              /\ ~gateRequests[r].nextCalled
              /\ ~gateRequests[r].settlePayment

\* One request was refused for its header and another because the fetch to
\* /verify threw.
C19_Witness ==
    /\ \E r \in DOMAIN gateRequests :
          /\ KnownAgent(gateRequests[r])
          /\ gateRequests[r].header = "aGVsbG8="
          /\ gateRequests[r].status = 402
    /\ \E i \in 1..Len(facilitatorCalls) :
          /\ facilitatorCalls[i].endpoint = "/verify"
          /\ facilitatorCalls[i].response = <<FetchThrows>>
          /\ gateRequests[facilitatorCalls[i].request].status = 402

\* The facilitator's answer to /verify affirms the payment: a 2xx response
\* whose JSON body has valid or verified true.
Affirmed(response) ==
    /\ ~response.threw
    /\ ResponseOk(response)
    /\ LET result == JSONparse(response.text) IN
          /\ ~result.threw
          /\ result.kind = "object"
          /\ \E field \in {"valid", "verified"} :
                field \in DOMAIN result.fields /\ result.fields[field] = TRUE

\* C32: next() has been called for a request only if its /verify call was
\* answered with a 2xx JSON response in which valid or verified is true.
C32_OnlyAffirmedPasses ==
    \A r \in DOMAIN gateRequests :
        gateRequests[r].nextCalled =>
            \E i \in CallsOf(r) :
                /\ facilitatorCalls[i].endpoint = "/verify"
                /\ facilitatorCalls[i].response # << >>
                /\ Affirmed(facilitatorCalls[i].response[1])

(***************************************************************************)
(* Transaction states (src/unnamed/part_000)                               *)
(***************************************************************************)
TRANSACTION_EXPIRY_MS == 120000

\* Transaction ids are strings in the source; they are numbered here.
TransactionIds == {1, 2}
BlockHeights == {100, 101}
MaxTransactionTime == 240002
TransactionInstants == {0, 1, 120001, 120002, MaxTransactionTime}

createTransaction(id) ==
    /\ transactionStates' =
           (id :> [id |-> id, status |-> "pending", createdAt |-> now,
                   confirmedAt |-> None, blockHeight |-> None, retryCount |-> 0])
           @@ transactionStates
    /\ ret' = Ret("createTransaction", id, "", "pending", TRUE, now)
    /\ UNCHANGED <<now, txOthers>>

confirmTransaction(id, blockHeight) ==
    /\ IF id \notin DOMAIN transactionStates \/ transactionStates[id].status # "pending"
       THEN /\ ret' = Ret("confirmTransaction", id, "", "", FALSE, blockHeight)
            /\ UNCHANGED transactionStates
       ELSE /\ transactionStates' =
                   [transactionStates EXCEPT ![id].status = "confirmed",
                                             ![id].confirmedAt = now,
                                             ![id].blockHeight = blockHeight]
            /\ ret' = Ret("confirmTransaction", id, "", "confirmed", TRUE, blockHeight)
    /\ UNCHANGED <<now, txOthers>>

failTransaction(id) ==
    /\ IF id \notin DOMAIN transactionStates
       THEN /\ ret' = Ret("failTransaction", id, "", "", FALSE, None)
            /\ UNCHANGED transactionStates
       ELSE /\ transactionStates' = [transactionStates EXCEPT ![id].status = "failed"]
            /\ ret' = Ret("failTransaction", id, "", "failed", TRUE, None)
    /\ UNCHANGED <<now, txOthers>>

ExpiredTransactions(T, t) ==
    {id \in DOMAIN T : T[id].status = "pending" /\ t - T[id].createdAt > TRANSACTION_EXPIRY_MS}

checkExpiredTransactions ==
    LET expired == ExpiredTransactions(transactionStates, now) IN
    /\ transactionStates' =
           [id \in DOMAIN transactionStates |->
               IF id \in expired THEN [transactionStates[id] EXCEPT !.status = "expired"]
               ELSE transactionStates[id]]
    /\ ret' = [Ret("checkExpiredTransactions", 0, "", "", TRUE, Cardinality(expired))
                  EXCEPT !.ids = expired]
    /\ UNCHANGED <<now, txOthers>>

clearCompletedTransactions ==
    LET completed == {id \in DOMAIN transactionStates :
                         transactionStates[id].status \in {"confirmed", "failed", "expired"}}
    IN  /\ transactionStates' =
               [id \in DOMAIN transactionStates \ completed |-> transactionStates[id]]
        /\ ret' = Ret("clearCompletedTransactions", 0, "", "", TRUE, Cardinality(completed))
        /\ UNCHANGED <<now, txOthers>>

TransactionTick ==
    /\ \E t \in TransactionInstants : t > now /\ now' = t
    /\ UNCHANGED <<ret, stores>>

TransactionNext ==
    \/ \E id \in TransactionIds : createTransaction(id)
    \/ \E id \in TransactionIds, blockHeight \in BlockHeights : confirmTransaction(id, blockHeight)
    \/ \E id \in TransactionIds : failTransaction(id)
    \/ checkExpiredTransactions
    \/ clearCompletedTransactions
    \/ TransactionTick

TransactionInit ==
    /\ now = 0
    /\ ret = Ret("init", 0, "", "", TRUE, None)
    /\ agentPricing = << >>
    /\ demandMetrics = << >>
    /\ pricingHistory = << >>
    /\ walletVolume = << >>
    /\ discountRules = << >>
    /\ sessions = << >>
    /\ walletSessions = << >>
    /\ nextSessionId = 1
    /\ lateMarkPaid = {}
    /\ usedTrue = [id \in SessionIds |-> 0]
    /\ lapsed = {}
    /\ rateLimitBuckets = << >>
    /\ usageHistory = << >>
    /\ walletStats = << >>
    /\ globalMetrics = [totalRequests |-> 0, totalPayments |-> 0, totalExecutions |-> 0,
                        blockedWallets |-> 0, totalViolations |-> 0, requestsPerMinute |-> 0]
    /\ escrowAccounts = << >>
    /\ escrowsByDepositor = << >>
    /\ escrowsByBeneficiary = << >>
    /\ activeDisputes = << >>
    /\ escrowMetrics = [totalEscrows |-> 0, activeEscrows |-> 0, totalReleased |-> 0,
                        totalRefunded |-> 0, totalDisputed |-> 0, totalFeesCollected |-> 0]
    /\ nextEscrowId = 1
    /\ releaseTrue = << >>
    /\ networkHistory = << >>
    /\ currentNetworkState = << >>
    /\ gateRequests = << >>
    /\ facilitatorCalls = << >>
    /\ transactionStates = << >>
    /\ authSessions = << >>
    /\ activeTokens = << >>
    /\ authMetrics = [totalAuthAttempts |-> 0, successfulAuths |-> 0, failedAuths |-> 0, activeTokens |-> 0, lockedWallets |-> 0]
    /\ nextAuthToken = 1
    /\ authLock = << >>
    /\ invalidRun = << >>
    /\ fetchRun = << >>
    /\ taskQueue = << >>
    /\ orchTasks = << >>
    /\ activeTasks = {}
    /\ completedTasks = << >>
    /\ agents = << >>
    /\ agentInstances = << >>
    /\ taskHandlers = {}
    /\ resumes = 0
    /\ schedulerQueue = << >>
    /\ schedulerRet = [op |-> "none", taskId |-> NoTaskId, ok |-> FALSE]
    /\ schedulerCalls = 0

TransactionSpec == TransactionInit /\ [][TransactionNext]_vars

\* The step is a call of confirmTransaction or failTransaction on transaction id.
TransitionCall(id) ==
    /\ ret'.op \in {"confirmTransaction", "failTransaction"}
    /\ ret'.id = id
    /\ ret' # ret \/ transactionStates' # transactionStates

\* C20: confirmTransaction and failTransaction applied to a transaction that
\* does not exist or is not pending return false and leave the transaction
\* states unchanged, so a confirmed transaction stays confirmed.
C20_WrongTransitionRefused ==
    [][\A id \in TransactionIds :
          (/\ TransitionCall(id)
           /\ id \notin DOMAIN transactionStates \/ transactionStates[id].status # "pending")
          => (ret'.ok = FALSE /\ transactionStates' = transactionStates)]_vars

(***************************************************************************)
(* Wallet authentication (src/unnamed/part_001)                            *)
(***************************************************************************)
AUTH_TOKEN_EXPIRY_MS == 3600000
MAX_AUTH_ATTEMPTS == 5
AUTH_LOCKOUT_MS == 900000

\* verifyWalletSignature is called while fewer than MaxAuthCalls calls were
\* counted, and issues tokens while fewer than MaxAuthTokens were issued.
MaxAuthCalls == 7
MaxAuthTokens == 2
AuthWallets == {AddrA, AddrShort}
\* A signature of 88 base64 characters and one of 87.
AuthSignatures == {[len |-> 88, base64 |-> TRUE], [len |-> 87, base64 |-> TRUE]}
\* The instants at which calls are observed: a session made at 0 expires at
\* 3600000; a lockout begun at 0 ends at 900000, one begun at 3000000 at 3900000.
AuthInstants == {0, 900000, 3000000, 3600001, 3900000}

\* signature.length === 88 && /^[A-Za-z0-9+/=]+$/.test(signature)
validateX402Signature(signature) == signature.len = 88 /\ signature.base64

\* session?.lockedUntil && Date.now() < session.lockedUntil
isWalletLocked(S, wallet, t) ==
    /\ wallet \in DOMAIN S
    /\ S[wallet].lockedUntil # None
    /\ t < S[wallet].lockedUntil

initiateWalletAuth(walletAddress) ==
    LET w == walletAddress.name IN
    /\ IF ~validateSolanaAddress(walletAddress) \/ isWalletLocked(authSessions, w, now)
       THEN /\ ret' = Ret("initiateWalletAuth", 0, w, "", FALSE, None)
            /\ UNCHANGED authSessions
       ELSE /\ authSessions' = Put(authSessions, w,
                   [createdAt |-> now, expiresAt |-> now + AUTH_TOKEN_EXPIRY_MS,
                    verified |-> FALSE, attempts |-> 0, lockedUntil |-> None])
            /\ ret' = Ret("initiateWalletAuth", 0, w, "", TRUE, None)
    /\ UNCHANGED <<now, activeTokens, authMetrics, nextAuthToken, authLock, invalidRun,
                   authOthers>>

\* The lockout test of verifyWalletSignature, locking at the sixth attempt.
AttemptsExceededLate(attempts) == attempts > MAX_AUTH_ATTEMPTS

\* session.attempts >= MAX_AUTH_ATTEMPTS
AttemptsExceeded(attempts) == attempts >= MAX_AUTH_ATTEMPTS

AuthError(w, error) == [Ret("verifyWalletSignature", 0, w, "", FALSE, None) EXCEPT !.reason = error]
Counted(metrics, failed) ==
    [metrics EXCEPT !.totalAuthAttempts = @ + 1,
                    !.failedAuths = IF failed THEN @ + 1 ELSE @]
RunOf(wallet) == IF wallet \in DOMAIN invalidRun THEN invalidRun[wallet] ELSE 0

verifyWalletSignature(walletAddress, signature) ==
    LET w == walletAddress.name IN
    /\ authMetrics.totalAuthAttempts < MaxAuthCalls
    /\ IF w \notin DOMAIN authSessions
       THEN /\ authMetrics' = Counted(authMetrics, TRUE)
            /\ ret' = AuthError(w, "No active auth session")
            /\ UNCHANGED <<authSessions, activeTokens, nextAuthToken, authLock, invalidRun>>
       ELSE IF isWalletLocked(authSessions, w, now)
       THEN /\ authMetrics' = Counted(authMetrics, FALSE)
            /\ ret' = AuthError(w, "Wallet temporarily locked")
            /\ UNCHANGED <<authSessions, activeTokens, nextAuthToken, authLock, invalidRun>>
       ELSE IF now > authSessions[w].expiresAt
       THEN /\ authSessions' = [x \in DOMAIN authSessions \ {w} |-> authSessions[x]]
            /\ authMetrics' = Counted(authMetrics, TRUE)
            /\ ret' = AuthError(w, "Auth session expired")
            /\ UNCHANGED <<activeTokens, nextAuthToken, authLock, invalidRun>>
       ELSE IF ~validateX402Signature(signature)
       THEN LET attempts == authSessions[w].attempts + 1 IN
            IF AttemptsExceeded(attempts)
            THEN /\ authSessions' = [authSessions EXCEPT ![w].attempts = attempts,
                                        ![w].lockedUntil = now + AUTH_LOCKOUT_MS]
                 /\ authMetrics' = [Counted(authMetrics, TRUE) EXCEPT !.lockedWallets = @ + 1]
                 /\ authLock' = Put(authLock, w, now + AUTH_LOCKOUT_MS)
                 /\ invalidRun' = Put(invalidRun, w, 0)
                 /\ ret' = AuthError(w, "Max attempts exceeded, wallet locked")
                 /\ UNCHANGED <<activeTokens, nextAuthToken>>
            ELSE /\ authSessions' = [authSessions EXCEPT ![w].attempts = attempts]
                 /\ authMetrics' = Counted(authMetrics, TRUE)
                 /\ invalidRun' = Put(invalidRun, w, RunOf(w) + 1)
                 /\ ret' = AuthError(w, "Invalid signature format")
                 /\ UNCHANGED <<activeTokens, nextAuthToken, authLock>>
       ELSE /\ nextAuthToken <= MaxAuthTokens
            /\ authSessions' = [authSessions EXCEPT ![w].verified = TRUE]
            /\ activeTokens' = activeTokens @@
                   (nextAuthToken :> [walletAddress |-> w, issuedAt |-> now,
                                      expiresAt |-> now + AUTH_TOKEN_EXPIRY_MS])
            /\ nextAuthToken' = nextAuthToken + 1
            /\ authMetrics' = [Counted(authMetrics, FALSE) EXCEPT
                                  !.successfulAuths = @ + 1,
                                  !.activeTokens = Cardinality(DOMAIN activeTokens) + 1]
            /\ invalidRun' = Put(invalidRun, w, 0)
            /\ ret' = Ret("verifyWalletSignature", 0, w, "", TRUE, nextAuthToken)
            /\ UNCHANGED authLock
    /\ UNCHANGED <<now, authOthers>>

unlockWallet(walletAddress) ==
    LET w == walletAddress.name IN
    /\ IF w \notin DOMAIN authSessions \/ authSessions[w].lockedUntil = None
       THEN /\ ret' = Ret("unlockWallet", 0, w, "", FALSE, None)
            /\ UNCHANGED <<authSessions, authMetrics>>
       ELSE /\ authSessions' = [authSessions EXCEPT ![w].lockedUntil = None,
                                                    ![w].attempts = 0]
            /\ authMetrics' = [authMetrics EXCEPT
                                  !.lockedWallets = IF @ - 1 > 0 THEN @ - 1 ELSE 0]
            /\ ret' = Ret("unlockWallet", 0, w, "", TRUE, None)
    /\ authLock' = [x \in DOMAIN authLock \ {w} |-> authLock[x]]
    /\ invalidRun' = [x \in DOMAIN invalidRun \ {w} |-> invalidRun[x]]
    /\ UNCHANGED <<now, activeTokens, nextAuthToken, authOthers>>

\* cleanupExpiredSessions of part_001 (the session store has one of the same name).
cleanupExpiredAuthSessions ==
    LET gone == {w \in DOMAIN authSessions :
                    now > authSessions[w].expiresAt /\ ~authSessions[w].verified}
        dead == {token \in DOMAIN activeTokens : now > activeTokens[token].expiresAt}
    IN
    /\ authSessions' = [w \in DOMAIN authSessions \ gone |-> authSessions[w]]
    /\ activeTokens' = [token \in DOMAIN activeTokens \ dead |-> activeTokens[token]]
    /\ authMetrics' = [authMetrics EXCEPT
                          !.activeTokens = Cardinality(DOMAIN activeTokens \ dead)]
    /\ ret' = Ret("cleanupExpiredAuthSessions", 0, "", "", TRUE,
                  Cardinality(gone) + Cardinality(dead))
    /\ UNCHANGED <<now, nextAuthToken, authLock, invalidRun, authOthers>>

AuthTick ==
    /\ \E t \in AuthInstants : t > now /\ now' = t
    /\ UNCHANGED <<ret, stores>>

AuthNext ==
    \/ \E w \in AuthWallets : initiateWalletAuth(w)
    \/ \E w \in AuthWallets, signature \in AuthSignatures : verifyWalletSignature(w, signature)
    \/ \E w \in AuthWallets : unlockWallet(w)
    \/ cleanupExpiredAuthSessions
    \/ AuthTick

AuthInit ==
    /\ now = 0
    /\ ret = Ret("init", 0, "", "", TRUE, None)
    /\ agentPricing = << >>
    /\ demandMetrics = << >>
    /\ pricingHistory = << >>
    /\ walletVolume = << >>
    /\ discountRules = << >>
    /\ sessions = << >>
    /\ walletSessions = << >>
    /\ nextSessionId = 1
    /\ lateMarkPaid = {}
    /\ usedTrue = [id \in SessionIds |-> 0]
    /\ lapsed = {}
    /\ rateLimitBuckets = << >>
    /\ usageHistory = << >>
    /\ walletStats = << >>
    /\ globalMetrics = [totalRequests |-> 0, totalPayments |-> 0, totalExecutions |-> 0,
                        blockedWallets |-> 0, totalViolations |-> 0, requestsPerMinute |-> 0]
    /\ escrowAccounts = << >>
    /\ escrowsByDepositor = << >>
    /\ escrowsByBeneficiary = << >>
    /\ activeDisputes = << >>
    /\ escrowMetrics = [totalEscrows |-> 0, activeEscrows |-> 0, totalReleased |-> 0,
                        totalRefunded |-> 0, totalDisputed |-> 0, totalFeesCollected |-> 0]
    /\ nextEscrowId = 1
    /\ releaseTrue = << >>
    /\ networkHistory = << >>
    /\ currentNetworkState = << >>
    /\ gateRequests = << >>
    /\ facilitatorCalls = << >>
    /\ transactionStates = << >>
    /\ authSessions = << >>
    /\ activeTokens = << >>
    /\ authMetrics = [totalAuthAttempts |-> 0, successfulAuths |-> 0, failedAuths |-> 0, activeTokens |-> 0, lockedWallets |-> 0]
    /\ nextAuthToken = 1
    /\ authLock = << >>
    /\ invalidRun = << >>
    /\ fetchRun = << >>
    /\ taskQueue = << >>
    /\ orchTasks = << >>
    /\ activeTasks = {}
    /\ completedTasks = << >>
    /\ agents = << >>
    /\ agentInstances = << >>
    /\ taskHandlers = {}
    /\ resumes = 0
    /\ schedulerQueue = << >>
    /\ schedulerRet = [op |-> "none", taskId |-> NoTaskId, ok |-> FALSE]
    /\ schedulerCalls = 0

AuthSpec == AuthInit /\ [][AuthNext]_vars

\* A step that is a call of op for the wallet (calls do not move the clock).
AuthCall(op, wallet) ==
    /\ now' = now
    /\ ret'.op = op
    /\ ret'.wallet = wallet

\* C21: while a lockout set at time t runs (until t + 900000) and unlockWallet
\* has not been called for the wallet, the wallet is locked, every
\* verifyWalletSignature for it fails and initiateWalletAuth for it returns
\* null; cleanupExpiredSessions leaves the lock in place.
C21_LockoutHolds ==
    /\ [](\A w \in DOMAIN authLock :
             now < authLock[w] => isWalletLocked(authSessions, w, now))
    /\ [][\A w \in DOMAIN authLock :
             (/\ now < authLock[w]
              /\ \/ AuthCall("verifyWalletSignature", w)
                 \/ AuthCall("initiateWalletAuth", w))
             => ~ret'.ok]_vars

\* C22: the fifth signature in a row that is refused for its format, with no
\* successful verification and no unlockWallet for the wallet in between,
\* locks the wallet; initiateWalletAuth calls in between make no difference.
C22_FifthFailureLocks ==
    [][\A w \in DOMAIN invalidRun :
          (/\ AuthCall("verifyWalletSignature", w)
           /\ invalidRun[w] = 4
           /\ ret'.reason \in {"Invalid signature format",
                               "Max attempts exceeded, wallet locked"})
          => isWalletLocked(authSessions', w, now)]_vars

\* C38: a token is issued for a wallet only while the wallet's session has not
\* yet been verified, so that one session yields at most one token.
C38_OneTokenPerSession ==
    [][\A w \in DOMAIN authSessions :
          (nextAuthToken' = nextAuthToken + 1 /\ activeTokens'[nextAuthToken].walletAddress = w)
              => ~authSessions[w].verified]_vars

(***************************************************************************)
(* Market-data fetch with retry (src/client/src/components/Partners.tsx)   *)
(* One call of fetchWithRetry: it awaits a fetch, and after a failure a     *)
(* timer, by which the clock advances.                                     *)
(***************************************************************************)
MaxRetries == 4
RetriesValues == 0..MaxRetries
\* What a fetch ends in: a response that is ok, HTTP 429, another HTTP error,
\* or a network error (the fetch rejects).
FetchOutcomes == {"ok", "429", "500", "network"}

\* The loop test with <= in place of <.
LoopContinuesOnceMore(i, retries) == i <= retries

\* for (let i = 0; i < retries; i++)
LoopContinues(i, retries) == i < retries

\* A delay that doubles with every attempt.
RetryDelayDoubling(base, i) == base * Pow2(i)

\* setTimeout(resolve, 1000 * (i + 1)) and setTimeout(resolve, 500 * (i + 1))
RetryDelay(base, i) == base * (i + 1)

\* The head of the loop: the next fetch, or the throw behind the loop.
LoopHead(run) ==
    IF LoopContinues(run.i, run.retries)
    THEN [run EXCEPT !.pc = "fetch", !.attempts = @ + 1]
    ELSE [run EXCEPT !.pc = "thrown", !.error = "Max retries reached"]

fetchWithRetry(retries) ==
    /\ fetchRun = << >>
    /\ fetchRun' = LoopHead([retries |-> retries, i |-> 0, pc |-> "start", attempts |-> 0,
                             outcomes |-> << >>, delays |-> << >>, error |-> ""])
    /\ UNCHANGED <<now, ret, fetchOthers>>

\* The awaited fetch settles: the rest of the loop body up to the next await.
fetchSettles(outcome) ==
    /\ fetchRun # << >>
    /\ fetchRun.pc = "fetch"
    /\ LET run == [fetchRun EXCEPT !.outcomes = Append(@, outcome)] IN
       fetchRun' =
           IF outcome = "ok" THEN [run EXCEPT !.pc = "returned"]
           ELSE IF outcome = "429"
           THEN [run EXCEPT !.pc = "wait",
                            !.delays = Append(@, [kind |-> "429",
                                                  ms |-> RetryDelay(1000, run.i)])]
           ELSE IF run.i = run.retries - 1
           THEN [run EXCEPT !.pc = "thrown",
                            !.error = IF outcome = "network" THEN "fetch failed"
                                      ELSE "HTTP " \o outcome]
           ELSE [run EXCEPT !.pc = "wait",
                            !.delays = Append(@, [kind |-> "error",
                                                  ms |-> RetryDelay(500, run.i)])]
    /\ UNCHANGED <<now, ret, fetchOthers>>

\* The timer of the awaited setTimeout fires: i++ and the head of the loop.
timerFires ==
    /\ fetchRun # << >>
    /\ fetchRun.pc = "wait"
    /\ now' = now + fetchRun.delays[Len(fetchRun.delays)].ms
    /\ fetchRun' = LoopHead([fetchRun EXCEPT !.i = @ + 1])
    /\ UNCHANGED <<ret, fetchOthers>>

FetchNext ==
    \/ \E retries \in RetriesValues : fetchWithRetry(retries)
    \/ \E outcome \in FetchOutcomes : fetchSettles(outcome)
    \/ timerFires

FetchInit ==
    /\ now = 0
    /\ ret = Ret("init", 0, "", "", TRUE, None)
    /\ agentPricing = << >>
    /\ demandMetrics = << >>
    /\ pricingHistory = << >>
    /\ walletVolume = << >>
    /\ discountRules = << >>
    /\ sessions = << >>
    /\ walletSessions = << >>
    /\ nextSessionId = 1
    /\ lateMarkPaid = {}
    /\ usedTrue = [id \in SessionIds |-> 0]
    /\ lapsed = {}
    /\ rateLimitBuckets = << >>
    /\ usageHistory = << >>
    /\ walletStats = << >>
    /\ globalMetrics = [totalRequests |-> 0, totalPayments |-> 0, totalExecutions |-> 0,
                        blockedWallets |-> 0, totalViolations |-> 0, requestsPerMinute |-> 0]
    /\ escrowAccounts = << >>
    /\ escrowsByDepositor = << >>
    /\ escrowsByBeneficiary = << >>
    /\ activeDisputes = << >>
    /\ escrowMetrics = [totalEscrows |-> 0, activeEscrows |-> 0, totalReleased |-> 0,
                        totalRefunded |-> 0, totalDisputed |-> 0, totalFeesCollected |-> 0]
    /\ nextEscrowId = 1
    /\ releaseTrue = << >>
    /\ networkHistory = << >>
    /\ currentNetworkState = << >>
    /\ gateRequests = << >>
    /\ facilitatorCalls = << >>
    /\ transactionStates = << >>
    /\ authSessions = << >>
    /\ activeTokens = << >>
    /\ authMetrics = [totalAuthAttempts |-> 0, successfulAuths |-> 0, failedAuths |-> 0, activeTokens |-> 0, lockedWallets |-> 0]
    /\ nextAuthToken = 1
    /\ authLock = << >>
    /\ invalidRun = << >>
    /\ fetchRun = << >>
    /\ taskQueue = << >>
    /\ orchTasks = << >>
    /\ activeTasks = {}
    /\ completedTasks = << >>
    /\ agents = << >>
    /\ agentInstances = << >>
    /\ taskHandlers = {}
    /\ resumes = 0
    /\ schedulerQueue = << >>
    /\ schedulerRet = [op |-> "none", taskId |-> NoTaskId, ok |-> FALSE]
    /\ schedulerCalls = 0

\* Every fetch settles and every timer fires.
FetchSpec ==
    FetchInit /\ [][FetchNext]_vars
        /\ WF_vars(\E outcome \in FetchOutcomes : fetchSettles(outcome))
        /\ WF_vars(timerFires)

FetchOver == fetchRun # << >> /\ fetchRun.pc \in {"returned", "thrown"}

\* C26: a call makes at most `retries` fetches; it returns exactly when a fetch
\* ended in an ok response, which is then the last and only one; it throws
\* only when no fetch ended ok, after `retries` fetches; and every call that
\* has begun ends by returning or throwing.
C26_BoundedRetries ==
    /\ [](fetchRun # << >> =>
             /\ fetchRun.attempts <= fetchRun.retries
             /\ Len(fetchRun.outcomes) <= fetchRun.attempts
             /\ \A j \in 1..Len(fetchRun.outcomes) :
                   fetchRun.outcomes[j] = "ok" =>
                       j = Len(fetchRun.outcomes) /\ fetchRun.pc = "returned"
             /\ fetchRun.pc = "returned" =>
                   /\ fetchRun.outcomes # << >>
                   /\ fetchRun.outcomes[Len(fetchRun.outcomes)] = "ok"
             /\ fetchRun.pc = "thrown" =>
                   /\ fetchRun.attempts = fetchRun.retries
                   /\ Len(fetchRun.outcomes) = fetchRun.retries)
    /\ (fetchRun # << >>) ~> FetchOver

\* A call with three retries has thrown after HTTP 429, a network error and
\* another HTTP error, having waited 1000 and then 1000 ms.
C26_Witness ==
    /\ fetchRun # << >>
    /\ fetchRun.retries = 3
    /\ fetchRun.pc = "thrown"
    /\ fetchRun.outcomes = <<"429", "network", "500">>
    /\ now = 2000

RECURSIVE DelaySum(_)
DelaySum(delays) ==
    IF delays = << >> THEN 0 ELSE Head(delays).ms + DelaySum(Tail(delays))

\* C27: of two waits in a row of one call that follow the same kind of
\* failure, the later one is twice the earlier one.
C27_DelaysDouble ==
    fetchRun # << >> =>
        \A j \in 2..Len(fetchRun.delays) :
            fetchRun.delays[j].kind = fetchRun.delays[j - 1].kind =>
                fetchRun.delays[j].ms = 2 * fetchRun.delays[j - 1].ms

\* C27 as amended: the wait after the k-th fetch of a call is k x 1000 ms when
\* that fetch ended in HTTP 429 and k x 500 ms when it failed otherwise, and
\* the clock has advanced by the waits that are over.
C27_DelaysGrowLinearly ==
    fetchRun # << >> =>
        /\ \A k \in 1..Len(fetchRun.delays) :
              /\ fetchRun.delays[k].kind = "429" =>
                    fetchRun.outcomes[k] = "429" /\ fetchRun.delays[k].ms = k * 1000
              /\ fetchRun.delays[k].kind = "error" =>
                    /\ fetchRun.outcomes[k] \in {"500", "network"}
                    /\ fetchRun.delays[k].ms = k * 500
        /\ fetchRun.pc # "wait" => now = DelaySum(fetchRun.delays)

\* Three fetches of a call failed alike and the fourth is under way after
\* waits of 500, 1000 and 1500 ms.
C27_Witness ==
    /\ fetchRun # << >>
    /\ fetchRun.pc = "fetch"
    /\ fetchRun.attempts = 4
    /\ Len(fetchRun.delays) = 3
    /\ \A k \in 1..3 : fetchRun.delays[k] = [kind |-> "error", ms |-> 500 * k]
    /\ now = 3000

(***************************************************************************)
(* Agent orchestrator (src/server/services/agent-orchestrator.ts)          *)
(* Tasks and agent instances are objects; they are numbered in creation    *)
(* order and the maps and arrays hold the numbers. avgResponseTime and      *)
(* lastActive of an agent, the payload, result, createdAt and completedAt   *)
(* of a task and the values the calls return are left out: nothing below    *)
(* reads them.  Two fields of a task are the model's own: agent, the        *)
(* instance executeTask was given, and forRegistered, whether the task's    *)
(* agent id was registered when the task was submitted.                     *)
(***************************************************************************)
maxConcurrentTasks == 5
taskTimeout == 30000
priorityLevels == 10
MaxCompletedTasks == 1000

MaxOrchTasks == 3
MaxAgentInstances == 2
OrchAgentIds == {"alpha", "beta"}
\* A task type has no handler until registerTaskHandler gives it one.
TaskTypes == {"work"}
\* priority: number = 5
DefaultPriority == 5
PriorityValues == {1, DefaultPriority, 11}

\* map.get(key) || [] and map.set(key, value) of a Map.
MapGet(map, key) == IF key \in DOMAIN map THEN map[key] ELSE << >>
MapSet(map, key, value) ==
    [k \in DOMAIN map \cup {key} |-> IF k = key THEN value ELSE map[k]]
MapDelete(map, key) == [k \in DOMAIN map \ {key} |-> map[k]]

\* The orchestrator's state as one record, for the functions below.
Orchestrator ==
    [taskQueue |-> taskQueue, orchTasks |-> orchTasks, activeTasks |-> activeTasks,
     completedTasks |-> completedTasks, agents |-> agents,
     agentInstances |-> agentInstances, taskHandlers |-> taskHandlers,
     resumes |-> resumes]

Becomes(O) ==
    /\ taskQueue' = O.taskQueue
    /\ orchTasks' = O.orchTasks
    /\ activeTasks' = O.activeTasks
    /\ completedTasks' = O.completedTasks
    /\ agents' = O.agents
    /\ agentInstances' = O.agentInstances
    /\ taskHandlers' = O.taskHandlers
    /\ resumes' = O.resumes

\* Math.min(Math.max(priority, 1), config.priorityLevels)
Clamped(priority) == Min2(Max2(priority, 1), priorityLevels)

\* The priorities 1..priorityLevels whose queue holds a task.
WaitingPriorities(Q) == {p \in 1..priorityLevels : MapGet(Q, p) # << >>}

\* for (let priority = config.priorityLevels; priority >= 1; priority--)
HighestWaiting(Q) == CHOOSE p \in WaitingPriorities(Q) : \A q \in WaitingPriorities(Q) : q <= p

\* getNextTask: the task it returns, and the queue after its shift().
getNextTask(Q) ==
    IF WaitingPriorities(Q) = {} THEN None ELSE Head(Q[HighestWaiting(Q)])
ShiftedQueue(Q) == [Q EXCEPT ![HighestWaiting(Q)] = Tail(@)]

requeue(Q, t, priority) == MapSet(Q, priority, <<t>> \o MapGet(Q, priority))

\* The end of executeTask with the agent left busy.
FinallyKeepsBusy(O, t, status, error, t_now) ==
    [O EXCEPT !.orchTasks[t].status = status,
              !.orchTasks[t].error = error,
              !.activeTasks = @ \ {t},
              !.completedTasks = Append(@, t),
              !.resumes = @ + 1]

\* The end of executeTask: the try block's last lines or the catch block,
\* then the finally block; the processQueue that awaited it can go on.
Finally(O, t, status, error, t_now) ==
    LET a == O.orchTasks[t].agent IN
    [O EXCEPT !.orchTasks[t].status = status,
              !.orchTasks[t].error = error,
              !.agentInstances[a].completedTasks = IF status = "completed" THEN @ + 1 ELSE @,
              !.agentInstances[a].failedTasks = IF status = "failed" THEN @ + 1 ELSE @,
              !.agentInstances[a].status = "idle",
              !.agentInstances[a].currentTask = None,
              !.activeTasks = @ \ {t},
              !.completedTasks = IF Len(@) + 1 > MaxCompletedTasks
                                 THEN Tail(Append(@, t)) ELSE Append(@, t),
              !.resumes = @ + 1]

\* executeTask up to its await: without a handler it runs to its end.
executeTask(O, t, a, t_now) ==
    LET started == [O EXCEPT !.orchTasks[t].status = "running",
                             !.orchTasks[t].startedAt = t_now,
                             !.orchTasks[t].agent = a,
                             !.agentInstances[a].status = "busy",
                             !.agentInstances[a].currentTask = t,
                             !.activeTasks = @ \cup {t}]
    IN  IF O.orchTasks[t].type \in O.taskHandlers
        THEN started
        ELSE Finally(started, t, "completed", "", t_now)

\* processQueue up to its await.
processQueue(O, t_now) ==
    IF Cardinality(O.activeTasks) >= maxConcurrentTasks THEN O
    ELSE LET t == getNextTask(O.taskQueue) IN
         IF t = None THEN O
         ELSE LET shifted == [O EXCEPT !.taskQueue = ShiftedQueue(@)]
                  agentId == O.orchTasks[t].agentId
              IN  IF \/ agentId \notin DOMAIN O.agents
                     \/ O.agentInstances[O.agents[agentId]].status # "idle"
                  THEN [shifted EXCEPT !.taskQueue = requeue(@, t, O.orchTasks[t].priority)]
                  ELSE executeTask(shifted, t, O.agents[agentId], t_now)

registerAgent(id) ==
    /\ Len(agentInstances) < MaxAgentInstances
    /\ agentInstances' = Append(agentInstances,
           [id |-> id, status |-> "idle", currentTask |-> None,
            completedTasks |-> 0, failedTasks |-> 0])
    /\ agents' = MapSet(agents, id, Len(agentInstances) + 1)
    /\ UNCHANGED <<now, ret, taskQueue, orchTasks, activeTasks, completedTasks, taskHandlers,
                   resumes, orchOthers>>

unregisterAgent(agentId) ==
    /\ agents' = MapDelete(agents, agentId)
    /\ UNCHANGED <<now, ret, taskQueue, orchTasks, activeTasks, completedTasks, agentInstances,
                   taskHandlers, resumes, orchOthers>>

registerTaskHandler(taskType) ==
    /\ taskHandlers' = taskHandlers \cup {taskType}
    /\ UNCHANGED <<now, ret, taskQueue, orchTasks, activeTasks, completedTasks, agents,
                   agentInstances, resumes, orchOthers>>

submitTask(agentId, type, priority) ==
    /\ Len(orchTasks) < MaxOrchTasks
    /\ LET t == Len(orchTasks) + 1
           task == [agentId |-> agentId, type |-> type, priority |-> Clamped(priority),
                    status |-> "queued", startedAt |-> None, error |-> "",
                    agent |-> None, forRegistered |-> agentId \in DOMAIN agents]
           pushed == [Orchestrator EXCEPT
                         !.orchTasks = Append(@, task),
                         !.taskQueue = MapSet(@, priority, Append(MapGet(@, priority), t))]
       IN  Becomes(processQueue(pushed, now))
    /\ UNCHANGED <<now, ret, orchOthers>>

Running(t) == t \in DOMAIN orchTasks /\ orchTasks[t].status = "running"
Deadline(t) == orchTasks[t].startedAt + taskTimeout

\* The handler's promise settles before the timer has fired: the rest of the
\* try block, or the catch block with the handler's error.
handlerSettles(t, outcome) ==
    /\ Running(t)
    /\ now < Deadline(t)
    /\ Becomes(IF outcome = "resolved" THEN Finally(Orchestrator, t, "completed", "", now)
               ELSE Finally(Orchestrator, t, "failed", "handler error", now))
    /\ UNCHANGED <<now, ret, orchOthers>>

\* The setTimeout of the race fires first: reject(new Error("Task timeout")).
taskTimeoutFires(t) ==
    /\ Running(t)
    /\ now >= Deadline(t)
    /\ Becomes(Finally(Orchestrator, t, "failed", "Task timeout", now))
    /\ UNCHANGED <<now, ret, orchOthers>>

\* processQueue after its await executeTask: processQueue() once more.
processQueueResumes ==
    /\ resumes > 0
    /\ Becomes(processQueue([Orchestrator EXCEPT !.resumes = @ - 1], now))
    /\ UNCHANGED <<now, ret, orchOthers>>

\* Time passes until the next timer is due.
OrchTick ==
    /\ \E t \in {Deadline(u) : u \in {v \in DOMAIN orchTasks : Running(v)}} :
          /\ t > now
          /\ \A u \in DOMAIN orchTasks : Running(u) => t <= Deadline(u)
          /\ now' = t
    /\ UNCHANGED <<ret, stores>>

\* The calls with agent ids and priorities from the given sets, and the
\* steps of the running tasks.
OrchestratorCalls(ids, priorities) ==
    \/ \E id \in ids : registerAgent(id)
    \/ \E id \in ids : unregisterAgent(id)
    \/ \E type \in TaskTypes : registerTaskHandler(type)
    \/ \E id \in ids, type \in TaskTypes, priority \in priorities :
          submitTask(id, type, priority)
    \/ \E t \in 1..MaxOrchTasks, outcome \in {"resolved", "rejected"} : handlerSettles(t, outcome)
    \/ \E t \in 1..MaxOrchTasks : taskTimeoutFires(t)
    \/ processQueueResumes
    \/ OrchTick

OrchestratorNext == OrchestratorCalls(OrchAgentIds, PriorityValues)

\* The calls for one agent id and the default priority.
OrchestratorOneNext == OrchestratorCalls({"alpha"}, {DefaultPriority})

\* The calls for two agent ids and the default priority.
OrchestratorTwoNext == OrchestratorCalls(OrchAgentIds, {DefaultPriority})

OrchestratorInit ==
    /\ now = 0
    /\ ret = Ret("init", 0, "", "", TRUE, None)
    /\ agentPricing = << >>
    /\ demandMetrics = << >>
    /\ pricingHistory = << >>
    /\ walletVolume = << >>
    /\ discountRules = << >>
    /\ sessions = << >>
    /\ walletSessions = << >>
    /\ nextSessionId = 1
    /\ lateMarkPaid = {}
    /\ usedTrue = [id \in SessionIds |-> 0]
    /\ lapsed = {}
    /\ rateLimitBuckets = << >>
    /\ usageHistory = << >>
    /\ walletStats = << >>
    /\ globalMetrics = [totalRequests |-> 0, totalPayments |-> 0, totalExecutions |-> 0,
                        blockedWallets |-> 0, totalViolations |-> 0, requestsPerMinute |-> 0]
    /\ escrowAccounts = << >>
    /\ escrowsByDepositor = << >>
    /\ escrowsByBeneficiary = << >>
    /\ activeDisputes = << >>
    /\ escrowMetrics = [totalEscrows |-> 0, activeEscrows |-> 0, totalReleased |-> 0,
                        totalRefunded |-> 0, totalDisputed |-> 0, totalFeesCollected |-> 0]
    /\ nextEscrowId = 1
    /\ releaseTrue = << >>
    /\ networkHistory = << >>
    /\ currentNetworkState = << >>
    /\ gateRequests = << >>
    /\ facilitatorCalls = << >>
    /\ transactionStates = << >>
    /\ authSessions = << >>
    /\ activeTokens = << >>
    /\ authMetrics = [totalAuthAttempts |-> 0, successfulAuths |-> 0, failedAuths |-> 0, activeTokens |-> 0, lockedWallets |-> 0]
    /\ nextAuthToken = 1
    /\ authLock = << >>
    /\ invalidRun = << >>
    /\ fetchRun = << >>
    /\ taskQueue = << >>
    /\ orchTasks = << >>
    /\ activeTasks = {}
    /\ completedTasks = << >>
    /\ agents = << >>
    /\ agentInstances = << >>
    /\ taskHandlers = {}
    /\ resumes = 0
    /\ schedulerQueue = << >>
    /\ schedulerRet = [op |-> "none", taskId |-> NoTaskId, ok |-> FALSE]
    /\ schedulerCalls = 0

OrchestratorSpec == OrchestratorInit /\ [][OrchestratorNext]_vars

\* Timers fire, time passes and a processQueue that can go on does.
OrchestratorFairSpec ==
    OrchestratorInit /\ [][OrchestratorOneNext]_vars
        /\ WF_vars(\E t \in 1..MaxOrchTasks : taskTimeoutFires(t))
        /\ WF_vars(processQueueResumes)
        /\ WF_vars(OrchTick)

\* The same fairness, and every handler settles: with two agent ids.
OrchestratorQueueSpec ==
    OrchestratorInit /\ [][OrchestratorTwoNext]_vars
        /\ WF_vars(\E t \in 1..MaxOrchTasks : taskTimeoutFires(t))
        /\ WF_vars(processQueueResumes)
        /\ WF_vars(OrchTick)
        /\ WF_vars(\E t \in 1..MaxOrchTasks, outcome \in {"resolved", "rejected"} :
                      handlerSettles(t, outcome))

\* Task t leaves the queue in the step, or is created and started in it.
Dispatched(t) ==
    /\ t \in DOMAIN orchTasks'
    /\ orchTasks'[t].status # "queued"
    /\ t \in DOMAIN orchTasks => orchTasks[t].status = "queued"

\* Task t ends in the step: started in it or before it, and over after it.
Ended(t) ==
    /\ t \in DOMAIN orchTasks'
    /\ orchTasks'[t].status \in {"completed", "failed"}
    /\ t \in DOMAIN orchTasks => orchTasks[t].status \in {"queued", "running"}

\* C28: no task is running past the time its timer is due; a task that ends
\* when its timer is due is failed with 'Task timeout'; after every step in
\* which a task ends the agent instance that ran it is idle, the task is not
\* in activeTasks and is the last of completedTasks; and every running task
\* is no longer running at some later time.
C28_RunningEnds ==
    /\ [](\A t \in DOMAIN orchTasks : Running(t) => now <= Deadline(t))
    /\ [][\A t \in DOMAIN orchTasks' : Ended(t) =>
             /\ Running(t) /\ now >= Deadline(t) =>
                   /\ orchTasks'[t].status = "failed"
                   /\ orchTasks'[t].error = "Task timeout"
             /\ agentInstances'[orchTasks'[t].agent].status = "idle"
             /\ t \notin activeTasks'
             /\ completedTasks' = Append(completedTasks, t)]_vars
    /\ \A t \in 1..MaxOrchTasks : Running(t) ~> ~Running(t)

\* A task has been failed by its timer; the agent instance that ran it is
\* idle and the task is among the completed ones, no longer among the active.
C28_Witness ==
    \E t \in DOMAIN orchTasks :
        /\ orchTasks[t].status = "failed"
        /\ orchTasks[t].error = "Task timeout"
        /\ now = Deadline(t)
        /\ agentInstances[orchTasks[t].agent].status = "idle"
        /\ t \notin activeTasks
        /\ \E k \in DOMAIN completedTasks : completedTasks[k] = t

\* C29: every task's priority lies in 1..priorityLevels, whatever priority it
\* was submitted with, and after a step that dispatches a task every task
\* still queued has a lower priority than the dispatched one, or the same
\* priority and a later submission.
C29_PriorityOrder ==
    /\ [](\A t \in DOMAIN orchTasks : orchTasks[t].priority \in 1..priorityLevels)
    /\ [][\A t \in DOMAIN orchTasks' : Dispatched(t) =>
             \A u \in DOMAIN orchTasks' :
                 orchTasks'[u].status = "queued" =>
                     \/ orchTasks'[u].priority < orchTasks'[t].priority
                     \/ /\ orchTasks'[u].priority = orchTasks'[t].priority
                        /\ u > t]_vars

TaskDone(t) == t \in DOMAIN orchTasks /\ orchTasks[t].status \in {"completed", "failed"}

\* C34: every task that was submitted for a registered agent is completed or
\* failed at some later time, unless its agent id is unregistered meanwhile.
C34_NoStarvation ==
    \A t \in 1..MaxOrchTasks :
        (t \in DOMAIN orchTasks /\ orchTasks[t].forRegistered)
            ~> (t \in DOMAIN orchTasks
                   /\ (TaskDone(t) \/ orchTasks[t].agentId \notin DOMAIN agents))

\* C35: no agent id has two tasks in status running.
C35_OneRunningPerAgent ==
    \A t, u \in DOMAIN orchTasks :
        (/\ orchTasks[t].status = "running"
         /\ orchTasks[u].status = "running"
         /\ orchTasks[t].agentId = orchTasks[u].agentId) => t = u

\* ---------------------------------------------------------------------------
\* AI agent scheduler (src/server/services/ai-agent-scheduler.ts)
\*
\* schedulerQueue is the module's taskQueue array (the orchestrator owns the
\* name taskQueue here), its getNextTask and cancelTask are schedulerGetNextTask
\* and schedulerCancelTask. A ScheduledTask keeps taskId, agentId, priority,
\* scheduledAt and executeAt; tokenAddress is stored and never read.
\* ---------------------------------------------------------------------------

MAX_QUEUED_TASKS == 100

\* Scheduler calls made in one run.
MaxSchedulerCalls == 4

\* A queue that is two tasks short of full: "gamma" scheduled one analysis in
\* each of the first WarmLength milliseconds, with the default delay and priority.
WarmLength == MAX_QUEUED_TASKS - 2
SchedulerStart == WarmLength + 1
SchedulerInstants == SchedulerStart..(SchedulerStart + 2)
SchedulerAgentIds == {"alpha"}
SchedulerDelays == {0, 1000}
SchedulerPriorities == {1, 2}

ScheduledTask(agentId, delayMs, priority, at) ==
    [taskId |-> TaskId(agentId, at), agentId |-> agentId, priority |-> priority,
     scheduledAt |-> at, executeAt |-> at + delayMs]

WarmQueue(n) == [i \in 1..n |-> ScheduledTask("gamma", 0, 1, i)]

\* The comparator of line 36: b.priority - a.priority || a.executeAt - b.executeAt.
CompareTasks(a, b) ==
    IF b.priority - a.priority # 0 THEN b.priority - a.priority
    ELSE a.executeAt - b.executeAt

\* Array.prototype.sort with that comparator. The sort is stable: an element
\* ends behind those the comparator puts before it and behind the earlier ones
\* it ties with. RankSorted places every element by that rule; where all but the
\* last element are in order already, the same rule moves the last element only,
\* which InsertSorted does.
IsSortedTasks(q) == \A i \in 1..(Len(q) - 1) : CompareTasks(q[i], q[i + 1]) <= 0

InsertSorted(sorted, t) ==
    LET k == Cardinality({i \in 1..Len(sorted) : CompareTasks(sorted[i], t) <= 0})
    IN SubSeq(sorted, 1, k) \o <<t>> \o SubSeq(sorted, k + 1, Len(sorted))

RankSorted(q) ==
    LET n == Len(q)
        Rank(i) == Cardinality({j \in 1..n : \/ CompareTasks(q[j], q[i]) < 0
                                             \/ /\ CompareTasks(q[j], q[i]) = 0
                                                /\ j < i}) + 1
    IN [k \in 1..n |-> q[CHOOSE i \in 1..n : Rank(i) = k]]

SortTasks(q) ==
    LET front == SubSeq(q, 1, Len(q) - 1)
    IN IF q # << >> /\ IsSortedTasks(front) THEN InsertSorted(front, q[Len(q)])
       ELSE RankSorted(q)

\* Array.prototype.findIndex: the first index whose element passes, 0 for -1.
\* hits are the indexes whose element passes.
FirstIndex(hits) ==
    IF hits = {} THEN 0 ELSE CHOOSE i \in hits : \A j \in hits : i <= j

\* taskQueue.splice(idx, 1)
SpliceOne(q, idx) == SubSeq(q, 1, idx - 1) \o SubSeq(q, idx + 1, Len(q))

\* Lines 38-40: taskQueue.pop() once the queue is longer than MAX_QUEUED_TASKS.
PopOverflow(q) ==
    IF Len(q) > MAX_QUEUED_TASKS THEN SubSeq(q, 1, Len(q) - 1) ELSE q

scheduleAnalysis(agentId, delayMs, priority) ==
    /\ schedulerCalls < MaxSchedulerCalls
    /\ LET task == ScheduledTask(agentId, delayMs, priority, now)
           pushed == Append(schedulerQueue, task)
       IN /\ schedulerQueue' = PopOverflow(SortTasks(pushed))
          /\ schedulerRet' = [op |-> "scheduleAnalysis", taskId |-> task.taskId, ok |-> TRUE]
    /\ schedulerCalls' = schedulerCalls + 1
    /\ UNCHANGED <<now, ret, schedOthers>>

schedulerGetNextTask ==
    /\ schedulerCalls < MaxSchedulerCalls
    /\ LET idx == FirstIndex({i \in 1..Len(schedulerQueue) :
                                  schedulerQueue[i].executeAt <= now})
       IN IF idx = 0
          THEN /\ schedulerRet' = [op |-> "getNextTask", taskId |-> NoTaskId, ok |-> FALSE]
               /\ UNCHANGED schedulerQueue
          ELSE /\ schedulerRet' = [op |-> "getNextTask", taskId |-> schedulerQueue[idx].taskId,
                                   ok |-> TRUE]
               /\ schedulerQueue' = SpliceOne(schedulerQueue, idx)
    /\ schedulerCalls' = schedulerCalls + 1
    /\ UNCHANGED <<now, ret, schedOthers>>

schedulerCancelTask(taskId) ==
    /\ schedulerCalls < MaxSchedulerCalls
    /\ LET idx == FirstIndex({i \in 1..Len(schedulerQueue) :
                                  schedulerQueue[i].taskId = taskId})
       IN IF idx = 0
          THEN /\ schedulerRet' = [op |-> "cancelTask", taskId |-> taskId, ok |-> FALSE]
               /\ UNCHANGED schedulerQueue
          ELSE /\ schedulerRet' = [op |-> "cancelTask", taskId |-> taskId, ok |-> TRUE]
               /\ schedulerQueue' = SpliceOne(schedulerQueue, idx)
    /\ schedulerCalls' = schedulerCalls + 1
    /\ UNCHANGED <<now, ret, schedOthers>>

SchedulerTick ==
    /\ \E t \in SchedulerInstants : t > now /\ now' = t
    /\ UNCHANGED <<ret, stores>>

\* The ids cancelTask is called with: those scheduleAnalysis can have returned
\* and that of the oldest task of the warm queue.
SchedulerTaskIds ==
    {TaskId(a, t) : a \in SchedulerAgentIds, t \in SchedulerInstants} \cup {TaskId("gamma", 1)}

SchedulerNext ==
    \/ \E a \in SchedulerAgentIds, d \in SchedulerDelays, p \in SchedulerPriorities :
           scheduleAnalysis(a, d, p)
    \/ schedulerGetNextTask
    \/ \E id \in SchedulerTaskIds : schedulerCancelTask(id)
    \/ SchedulerTick

SchedulerInit ==
    /\ now = SchedulerStart
    /\ ret = Ret("init", 0, "", "", TRUE, None)
    /\ agentPricing = << >>
    /\ demandMetrics = << >>
    /\ pricingHistory = << >>
    /\ walletVolume = << >>
    /\ discountRules = << >>
    /\ sessions = << >>
    /\ walletSessions = << >>
    /\ nextSessionId = 1
    /\ lateMarkPaid = {}
    /\ usedTrue = [id \in SessionIds |-> 0]
    /\ lapsed = {}
    /\ rateLimitBuckets = << >>
    /\ usageHistory = << >>
    /\ walletStats = << >>
    /\ globalMetrics = [totalRequests |-> 0, totalPayments |-> 0, totalExecutions |-> 0,
                        blockedWallets |-> 0, totalViolations |-> 0, requestsPerMinute |-> 0]
    /\ escrowAccounts = << >>
    /\ escrowsByDepositor = << >>
    /\ escrowsByBeneficiary = << >>
    /\ activeDisputes = << >>
    /\ escrowMetrics = [totalEscrows |-> 0, activeEscrows |-> 0, totalReleased |-> 0,
                        totalRefunded |-> 0, totalDisputed |-> 0, totalFeesCollected |-> 0]
    /\ nextEscrowId = 1
    /\ releaseTrue = << >>
    /\ networkHistory = << >>
    /\ currentNetworkState = << >>
    /\ gateRequests = << >>
    /\ facilitatorCalls = << >>
    /\ transactionStates = << >>
    /\ authSessions = << >>
    /\ activeTokens = << >>
    /\ authMetrics = [totalAuthAttempts |-> 0, successfulAuths |-> 0, failedAuths |-> 0, activeTokens |-> 0, lockedWallets |-> 0]
    /\ nextAuthToken = 1
    /\ authLock = << >>
    /\ invalidRun = << >>
    /\ fetchRun = << >>
    /\ taskQueue = << >>
    /\ orchTasks = << >>
    /\ activeTasks = {}
    /\ completedTasks = << >>
    /\ agents = << >>
    /\ agentInstances = << >>
    /\ taskHandlers = {}
    /\ resumes = 0
    /\ \E n \in {0, WarmLength} : schedulerQueue = WarmQueue(n)
    /\ schedulerRet = [op |-> "none", taskId |-> NoTaskId, ok |-> FALSE]
    /\ schedulerCalls = 0

SchedulerSpec == SchedulerInit /\ [][SchedulerNext]_vars

\* C39: when scheduleAnalysis returns, the queue holds a task with the id it
\* returned.
C39_ReturnedIdQueued ==
    schedulerRet.op = "scheduleAnalysis" =>
        \E i \in 1..Len(schedulerQueue) : schedulerQueue[i].taskId = schedulerRet.taskId

=============================================================================
